---- MODULE Spec2Model ----
(***************************************************************************)
(* CineAI: the caching and recommendation-resolution pipeline.             *)
(*                                                                         *)
(*   server/routes/recommendations.js   POST /ai, the recommendation cache *)
(*   server/routes/movies.js            /search, /details, fetchOmdb       *)
(*   database/schema.sql                movies_cache, ai_recommendations_  *)
(*                                      cache, search_history              *)
(*                                                                         *)
(* A handler is a sequence of steps separated by its awaits; every step is *)
(* one action, so two requests interleave exactly where the code yields.   *)
(***************************************************************************)
EXTENDS Integers, Sequences, FiniteSets, TLC

VARIABLES now, moviesCache, aiCache, history, ai, lastPut, mv, fmt, env, gen, lastUpsert

vars == <<now, moviesCache, aiCache, history, ai, lastPut, mv, fmt, env, gen, lastUpsert>>

(***************************************************************************)
(* JavaScript values.  A value is tagged, so that null, undefined, NaN, 0  *)
(* and "" stay apart the way they do in the code.  A number is n / 10^e    *)
(* with no trailing zero in its fraction.                                  *)
(***************************************************************************)
Null == [t |-> "null"]

Undefined == [t |-> "undefined"]

NaN == [t |-> "nan"]

Str(s) == [t |-> "str", s |-> s]

Num(n, e) == [t |-> "num", n |-> n, e |-> e]

IntNum(n) == Num(n, 0)

Bool(b) == [t |-> "bool", b |-> b]

\* An array, and an object with its properties.
Arr(a) == [t |-> "arr", a |-> a]

Obj(o) == [t |-> "obj", o |-> o]

\* ToBoolean: what `x || y` and `!x` test.
Falsy(v) ==
    \/ v.t \in {"null", "undefined", "nan"}
    \/ v.t = "str" /\ v.s = ""
    \/ v.t = "num" /\ v.n = 0
    \/ v.t = "bool" /\ ~v.b

\* x || y
Or(x, y) == IF Falsy(x) THEN y ELSE x

CharAt(s, i) == SubSeq(s, i, i)

Digits == {"0", "1", "2", "3", "4", "5", "6", "7", "8", "9"}

DigitVal(c) ==
    CASE c = "0" -> 0 [] c = "1" -> 1 [] c = "2" -> 2 [] c = "3" -> 3
      [] c = "4" -> 4 [] c = "5" -> 5 [] c = "6" -> 6 [] c = "7" -> 7
      [] c = "8" -> 8 [] c = "9" -> 9

WhiteSpace == {" ", "\t", "\n", "\r"}

\* The index of the first character of s at or after i that is not white space.
RECURSIVE SkipSpace(_, _)
SkipSpace(s, i) ==
    IF i <= Len(s) /\ CharAt(s, i) \in WhiteSpace THEN SkipSpace(s, i + 1) ELSE i

\* The index after the run of digits of s that starts at i.
RECURSIVE DigitsEnd(_, _)
DigitsEnd(s, i) ==
    IF i <= Len(s) /\ CharAt(s, i) \in Digits THEN DigitsEnd(s, i + 1) ELSE i

\* The value of the digits s[i..j-1], continuing from acc.
RECURSIVE DigitsValue(_, _, _, _)
DigitsValue(s, i, j, acc) ==
    IF i >= j THEN acc ELSE DigitsValue(s, i + 1, j, 10 * acc + DigitVal(CharAt(s, i)))

\* n / 10^e without the trailing zeros of its fraction.
RECURSIVE Normal(_, _)
Normal(n, e) == IF e > 0 /\ n % 10 = 0 THEN Normal(n \div 10, e - 1) ELSE Num(n, e)

\* parseInt(v): the leading integer of the string, NaN when there is none.
\* The provider sends strings; undefined reads as "undefined", which holds no digit.
ParseInt(v) ==
    IF v.t # "str" THEN NaN
    ELSE LET s == v.s
             a == SkipSpace(s, 1)
             neg == a <= Len(s) /\ CharAt(s, a) = "-"
             b == IF a <= Len(s) /\ CharAt(s, a) \in {"-", "+"} THEN a + 1 ELSE a
             c == DigitsEnd(s, b)
         IN  IF c = b THEN NaN
             ELSE IntNum((IF neg THEN -1 ELSE 1) * DigitsValue(s, b, c, 0))

\* parseFloat(v): the leading decimal literal of the string, NaN when there is none.
ParseFloat(v) ==
    IF v.t # "str" THEN NaN
    ELSE LET s == v.s
             a == SkipSpace(s, 1)
             neg == a <= Len(s) /\ CharAt(s, a) = "-"
             b == IF a <= Len(s) /\ CharAt(s, a) \in {"-", "+"} THEN a + 1 ELSE a
             c == DigitsEnd(s, b)
             dot == c <= Len(s) /\ CharAt(s, c) = "."
             d == IF dot THEN DigitsEnd(s, c + 1) ELSE c
             frac == IF dot THEN d - (c + 1) ELSE 0
             whole == DigitsValue(s, b, c, 0)
             all == IF dot THEN DigitsValue(s, c + 1, d, whole) ELSE whole
         IN  IF c = b /\ frac = 0 THEN NaN
             ELSE LET m == Normal(all, frac)
                  IN  Num((IF neg THEN -1 ELSE 1) * m.n, m.e)

(***************************************************************************)
(* The metadata provider's payload and its normalisation.                  *)
(***************************************************************************)
PayloadKeys ==
    {"imdbID", "Title", "Year", "Genre", "Director", "Actors", "Plot", "Poster",
     "imdbRating", "Runtime", "Language", "Country", "Rated", "Released", "Awards"}

\* omdbData.key: undefined when the payload does not carry the key.
Get(omdbData, key) == IF key \in DOMAIN omdbData THEN omdbData[key] ELSE Undefined

MovieColumns ==
    {"imdb_id", "title", "year", "genre", "director", "actors", "plot",
     "poster_url", "imdb_rating", "runtime", "language", "country"}

\* movies.js formatMovieData
formatMovieData(omdbData) ==
    [imdb_id     |-> Get(omdbData, "imdbID"),
     title       |-> Get(omdbData, "Title"),
     year        |-> Or(ParseInt(Get(omdbData, "Year")), Null),
     genre       |-> Get(omdbData, "Genre"),
     director    |-> Get(omdbData, "Director"),
     actors      |-> Get(omdbData, "Actors"),
     plot        |-> Get(omdbData, "Plot"),
     poster_url  |-> IF Get(omdbData, "Poster") # Str("N/A")
                     THEN Get(omdbData, "Poster") ELSE Null,
     imdb_rating |-> Or(ParseFloat(Get(omdbData, "imdbRating")), Null),
     runtime     |-> Get(omdbData, "Runtime"),
     language    |-> Get(omdbData, "Language"),
     country     |-> Get(omdbData, "Country")]

\* recommendations.js formatMovieData
formatMovieDataRec(omdbData) ==
    [imdb_id     |-> Get(omdbData, "imdbID"),
     title       |-> Get(omdbData, "Title"),
     year        |-> Or(ParseInt(Get(omdbData, "Year")), Null),
     genre       |-> Or(Get(omdbData, "Genre"), Str("Unknown")),
     director    |-> Or(Get(omdbData, "Director"), Str("Unknown")),
     actors      |-> Or(Get(omdbData, "Actors"), Str("Unknown")),
     plot        |-> Or(Get(omdbData, "Plot"), Str("Plot not available")),
     poster_url  |-> IF Get(omdbData, "Poster") # Str("N/A")
                     THEN Get(omdbData, "Poster") ELSE Null,
     imdb_rating |-> Or(ParseFloat(Get(omdbData, "imdbRating")), Null),
     runtime     |-> Or(Get(omdbData, "Runtime"), Str("Unknown")),
     language    |-> Or(Get(omdbData, "Language"), Str("Unknown")),
     country     |-> Or(Get(omdbData, "Country"), Str("Unknown")),
     rated       |-> Or(Get(omdbData, "Rated"), Str("Unknown")),
     released    |-> Or(Get(omdbData, "Released"), Str("Unknown")),
     awards      |-> Or(Get(omdbData, "Awards"), Str("Unknown"))]

(***************************************************************************)
(* database/schema.sql: movies_cache.  A row carries the twelve columns    *)
(* the code writes plus created_at; the AUTO_INCREMENT id is read by no    *)
(* statement of the routes and is left out.                                *)
(***************************************************************************)
\* VARCHAR(n): the column's width; 0 for a column with no width (TEXT, INT, DECIMAL).
ColumnWidth(col) ==
    CASE col = "imdb_id" -> 20
      [] col = "title" -> 255
      [] col = "genre" -> 255
      [] col = "director" -> 255
      [] col = "poster_url" -> 500
      [] col = "runtime" -> 20
      [] col = "language" -> 100
      [] col = "country" -> 100
      [] OTHER -> 0

NotNullColumns == {"imdb_id", "title"}

RECURSIVE Pow10(_)
Pow10(k) == IF k = 0 THEN 1 ELSE 10 * Pow10(k - 1)

\* DECIMAL(3,1): the value in tenths, rounded half away from zero.
Tenths(v) ==
    IF v.e <= 1 THEN v.n * Pow10(1 - v.e)
    ELSE LET p == Pow10(v.e - 1)
             a == IF v.n < 0 THEN -v.n ELSE v.n
             r == (2 * a + p) \div (2 * p)
         IN  IF v.n < 0 THEN -r ELSE r

\* What the column holds after a write of v, and whether the server accepts the
\* write.  The schema needs MySQL 5.7 or later (a JSON column), whose default
\* mode is strict: a value the column cannot hold fails the statement.  The
\* driver refuses to bind undefined.
ColumnStore(col, v) ==
    CASE v.t = "undefined" -> [ok |-> FALSE, v |-> Null]
      [] v.t = "null" -> [ok |-> col \notin NotNullColumns, v |-> Null]
      [] v.t = "nan" -> [ok |-> FALSE, v |-> Null]
      [] v.t = "str" ->
           IF col \in {"year", "imdb_rating"}
           THEN [ok |-> FALSE, v |-> Null]
           ELSE [ok |-> ColumnWidth(col) = 0 \/ Len(v.s) <= ColumnWidth(col), v |-> v]
      [] v.t = "num" ->
           IF col = "imdb_rating"
           THEN [ok |-> Tenths(v) \in -999..999, v |-> Normal(Tenths(v), 1)]
           ELSE IF col = "year"
           THEN [ok |-> v.e = 0, v |-> v]
           ELSE [ok |-> FALSE, v |-> Null]

\* SELECT * FROM movies_cache WHERE imdb_id = ?
FindById(store, imdbId) == {row \in store : row.imdb_id = imdbId}

\* INSERT INTO movies_cache (...) VALUES (...) ON DUPLICATE KEY UPDATE ...: the
\* table after the statement, at time t.  The update list names the eleven
\* columns other than the key; created_at is set by its DEFAULT on insert only.
UpsertMovie(store, movieData, t) ==
    LET cols == [c \in MovieColumns |-> ColumnStore(c, movieData[c])]
        vals == [c \in MovieColumns |-> cols[c].v]
        old == FindById(store, vals.imdb_id)
    IN  IF \E c \in MovieColumns : ~cols[c].ok
        THEN [ok |-> FALSE, store |-> store]
        ELSE IF old = {}
        THEN [ok |-> TRUE,
              store |-> store \cup {[c \in MovieColumns \cup {"created_at"} |->
                                       IF c = "created_at" THEN IntNum(t) ELSE vals[c]]}]
        ELSE [ok |-> TRUE,
              store |-> (store \ old) \cup
                          {[c \in MovieColumns \cup {"created_at"} |->
                              IF c = "created_at" THEN row.created_at ELSE vals[c]]
                           : row \in old}]

\* A write that keys the row by the title of the record.
cacheMovieByTitle(store, movieData, t) ==
    UpsertMovie(store, [movieData EXCEPT !.imdb_id = movieData.title], t).store

\* cacheMovie(movieData): the statement, its failure caught and logged.
cacheMovie(store, movieData, t) == UpsertMovie(store, movieData, t).store

LowerChar(c) ==
    CASE c = "A" -> "a" [] c = "B" -> "b" [] c = "C" -> "c" [] c = "D" -> "d"
      [] c = "E" -> "e" [] c = "F" -> "f" [] c = "G" -> "g" [] c = "H" -> "h"
      [] c = "I" -> "i" [] c = "J" -> "j" [] c = "K" -> "k" [] c = "L" -> "l"
      [] c = "M" -> "m" [] c = "N" -> "n" [] c = "O" -> "o" [] c = "P" -> "p"
      [] c = "Q" -> "q" [] c = "R" -> "r" [] c = "S" -> "s" [] c = "T" -> "t"
      [] c = "U" -> "u" [] c = "V" -> "v" [] c = "W" -> "w" [] c = "X" -> "x"
      [] c = "Y" -> "y" [] c = "Z" -> "z" [] OTHER -> c

\* String.prototype.toLowerCase
RECURSIVE ToLowerCase(_)
ToLowerCase(s) ==
    IF Len(s) <= 1 THEN LowerChar(s)
    ELSE LET half == Len(s) \div 2
         IN  ToLowerCase(SubSeq(s, 1, half)) \o ToLowerCase(SubSeq(s, half + 1, Len(s)))

\* String.prototype.trim
RECURSIVE TrimEnd(_)
TrimEnd(s) ==
    IF Len(s) > 0 /\ CharAt(s, Len(s)) \in WhiteSpace THEN TrimEnd(SubSeq(s, 1, Len(s) - 1)) ELSE s

Trim(s) == TrimEnd(SubSeq(s, SkipSpace(s, 1), Len(s)))

\* title LIKE '%sub%' under the table's case-insensitive collation.
Like(s, sub) ==
    \E i \in 1..(Len(s) - Len(sub) + 1) :
        ToLowerCase(SubSeq(s, i, i + Len(sub) - 1)) = ToLowerCase(sub)

\* ORDER BY imdb_rating DESC: a is not after b.  NULL sorts last.
RatingGeq(a, b) ==
    \/ b.imdb_rating.t = "null"
    \/ a.imdb_rating.t = "num" /\ b.imdb_rating.t = "num"
       /\ Tenths(a.imdb_rating) >= Tenths(b.imdb_rating)

\* The rows in the order the server returns them; rows of equal rating come in
\* an order the statement does not fix.
RECURSIVE OrderByRating(_)
OrderByRating(rows) ==
    IF rows = {} THEN <<>>
    ELSE LET top == CHOOSE a \in rows : \A b \in rows : RatingGeq(a, b)
         IN  <<top>> \o OrderByRating(rows \ {top})

Limit(seq, n) == SubSeq(seq, 1, IF Len(seq) < n THEN Len(seq) ELSE n)

\* The same rows from the lowest rating up.
RECURSIVE OrderByRatingAsc(_)
OrderByRatingAsc(rows) ==
    IF rows = {} THEN <<>>
    ELSE LET low == CHOOSE a \in rows : \A b \in rows : RatingGeq(b, a)
         IN  <<low>> \o OrderByRatingAsc(rows \ {low})

FindByTitleLowest(store, title, n) ==
    Limit(OrderByRatingAsc({row \in store : Like(row.title.s, title)}), n)

\* SELECT * FROM movies_cache WHERE title LIKE ? ORDER BY imdb_rating DESC LIMIT n
FindByTitle(store, title, n) ==
    Limit(OrderByRating({row \in store : Like(row.title.s, title)}), n)

(***************************************************************************)
(* The metadata provider, as the routes see it through axios.              *)
(***************************************************************************)
Inception ==
    [Response   |-> Str("True"),
     imdbID     |-> Str("tt1375666"),
     Title      |-> Str("Inception"),
     Year       |-> Str("2010"),
     Genre      |-> Str("Action, Adventure, Sci-Fi"),
     Director   |-> Str("Christopher Nolan"),
     Actors     |-> Str("Leonardo DiCaprio, Joseph Gordon-Levitt, Elliot Page"),
     Plot       |-> Str("A thief who steals corporate secrets through dream-sharing."),
     Poster     |-> Str("https://m.media-amazon.com/images/M/inception.jpg"),
     imdbRating |-> Str("8.8"),
     Runtime    |-> Str("148 min"),
     Language   |-> Str("English, Japanese, French"),
     Country    |-> Str("United States, United Kingdom"),
     Rated      |-> Str("PG-13"),
     Released   |-> Str("16 Jul 2010"),
     Awards     |-> Str("Won 4 Oscars")]

\* The same title after the provider's rating moved.
InceptionRerated == [Inception EXCEPT !.imdbRating = Str("8.9")]

\* A title for which the provider marks year, poster and rating "N/A".
Baraka ==
    [Response   |-> Str("True"),
     imdbID     |-> Str("tt0103767"),
     Title      |-> Str("Baraka"),
     Year       |-> Str("N/A"),
     Genre      |-> Str("Documentary"),
     Director   |-> Str("Ron Fricke"),
     Actors     |-> Str("N/A"),
     Plot       |-> Str("N/A"),
     Poster     |-> Str("N/A"),
     imdbRating |-> Str("N/A"),
     Runtime    |-> Str("96 min"),
     Language   |-> Str("None"),
     Country    |-> Str("United States"),
     Rated      |-> Str("Not Rated"),
     Released   |-> Str("N/A"),
     Awards     |-> Str("N/A")]

\* A title whose list of spoken languages is longer than 100 characters.
Human ==
    [Response   |-> Str("True"),
     imdbID     |-> Str("tt3327994"),
     Title      |-> Str("Human"),
     Year       |-> Str("2015"),
     Genre      |-> Str("Documentary"),
     Director   |-> Str("Yann Arthus-Bertrand"),
     Actors     |-> Str("N/A"),
     Plot       |-> Str("A collection of stories about and images of our world."),
     Poster     |-> Str("https://m.media-amazon.com/images/M/human.jpg"),
     imdbRating |-> Str("8.6"),
     Runtime    |-> Str("143 min"),
     Language   |-> Str("English, Spanish, French, German, Italian, Japanese, Mandarin, "
                        \o "Russian, Arabic, Hindi, Portuguese, Swahili, Nepali, Khmer"),
     Country    |-> Str("France"),
     Rated      |-> Str("N/A"),
     Released   |-> Str("12 Sep 2015"),
     Awards     |-> Str("N/A")]

\* Three more titles the provider knows.
TheDarkKnight ==
    [Inception EXCEPT !.imdbID = Str("tt0468569"), !.Title = Str("The Dark Knight"),
                      !.Year = Str("2008"), !.imdbRating = Str("9.0"),
                      !.Plot = Str("Batman faces the Joker.")]

TheMatrix ==
    [Inception EXCEPT !.imdbID = Str("tt0133093"), !.Title = Str("The Matrix"),
                      !.Year = Str("1999"), !.imdbRating = Str("8.7"),
                      !.Plot = Str("A hacker learns what the world is.")]

FightClub ==
    [Inception EXCEPT !.imdbID = Str("tt0137523"), !.Title = Str("Fight Club"),
                      !.Year = Str("1999"), !.imdbRating = Str("8.8"),
                      !.Plot = Str("An office worker starts a club.")]

\* A second record whose title contains "Inception".
InceptionCobol ==
    [Inception EXCEPT !.imdbID = Str("tt5295894"),
                      !.Title = Str("Inception: The Cobol Job"),
                      !.imdbRating = Str("7.5"),
                      !.Plot = Str("A prequel in motion comics.")]

NotFoundById == [Response |-> Str("False"), Error |-> Str("Incorrect IMDb ID.")]

NotFoundByTitle == [Response |-> Str("False"), Error |-> Str("Movie not found!")]

ImdbIds == {"tt1375666", "tt0103767", "tt3327994", "tt0000000"}

\* What the provider may answer to i=<imdbId>.
OmdbById(imdbId) ==
    CASE imdbId = "tt1375666" -> {Inception, InceptionRerated}
      [] imdbId = "tt0103767" -> {Baraka}
      [] imdbId = "tt3327994" -> {Human}
      [] OTHER -> {NotFoundById}

SearchTitles == {Undefined, Str("incep"), Str("zzzz")}

\* What the provider may answer to s=<title>.
OmdbSearch(title) ==
    IF Like("Inception", title)
    THEN {[Response |-> Str("True"), totalResults |-> Str(n),
           Search |-> [i \in 1..Len(ids) |-> [imdbID |-> Str(ids[i])]]]
          : <<n, ids>> \in {<<"1", <<"tt1375666">> >>,
                            <<"2", <<"tt1375666", "tt0000000">> >>}}
    ELSE {NotFoundByTitle}

\* What the provider may answer to t=<title>.
OmdbByTitle(title) ==
    CASE ToLowerCase(title) = "inception" -> {Inception}
      [] ToLowerCase(title) = "the dark knight" -> {TheDarkKnight}
      [] ToLowerCase(title) = "the matrix" -> {TheMatrix}
      [] ToLowerCase(title) = "fight club" -> {FightClub}
      [] OTHER -> {NotFoundByTitle}

\* The outcomes of one axios.get: a well-formed body, or a transport failure
\* (time-out, connection error, 5xx), which axios throws.
AxiosGet(mode, arg) ==
    {[ok |-> TRUE, data |-> d] :
        d \in CASE mode = "i" -> OmdbById(arg)
                [] mode = "t" -> OmdbByTitle(arg)
                [] OTHER -> OmdbSearch(arg)}
    \cup {[ok |-> FALSE, data |-> Null]}

(***************************************************************************)
(* movies.js: a request is a record; pc is the await it is suspended at.   *)
(***************************************************************************)
NoResp == [status |-> 0]

NoFetch == [kind |-> "none"]

IdleRequest ==
    [pc |-> "idle", kind |-> "none", arg |-> Null,
     mode |-> "i", fetchArg |-> "", ret |-> "idle",
     attempt |-> 0, log |-> <<>>, waits |-> <<>>, fres |-> NoFetch, during |-> {},
     md |-> Null, movies |-> <<>>, idx |-> 0, detailed |-> <<>>, total |-> Null,
     writes |-> <<>>, answers |-> <<>>, resp |-> NoResp]

\* A response that does not end the handler: res.json(...) with no return.
RespondOnly(q, status, body) == [q EXCEPT !.resp = [status |-> status, body |-> body]]

Respond(q, status, body) == [q EXCEPT !.pc = "done", !.resp = [status |-> status, body |-> body]]

\* fetchOmdb(params, retries = 3, timeout = 5000)
Retries == 3

\* A back-off that does not grow with the attempt.
BackoffFlat(attempt) == 500

\* setTimeout(r, 500 * attempt)
Backoff(attempt) == 500 * attempt

\* The call of fetchOmdb: attempt = 1, nothing waited for yet.
CallFetchOmdb(q, mode, arg, ret) ==
    [q EXCEPT !.pc = "fetch", !.mode = mode, !.fetchArg = arg, !.ret = ret,
              !.attempt = 1, !.log = <<>>, !.waits = <<>>, !.fres = NoFetch]

\* One turn of fetchOmdb's loop: await axios.get, return its data, or catch.
\* log notes what each axios.get of this call ended in.
AfterGet(q, out) ==
    IF out.ok
    THEN [q EXCEPT !.pc = q.ret, !.log = Append(@, "data"),
                   !.fres = [kind |-> "data", data |-> out.data]]
    ELSE IF q.attempt = Retries
    THEN [q EXCEPT !.pc = q.ret, !.log = Append(@, "failed"), !.fres = [kind |-> "throw"]]
    ELSE [q EXCEPT !.pc = "backoff", !.log = Append(@, "failed")]

FetchAttempt(r) ==
    /\ mv[r].pc = "fetch"
    /\ \E out \in AxiosGet(mv[r].mode, mv[r].fetchArg) :
           mv' = [mv EXCEPT ![r] = AfterGet(mv[r], out)]
    /\ UNCHANGED <<now, moviesCache, aiCache, history, ai, lastPut, fmt, env, gen, lastUpsert>>

\* The back-off before the next attempt, then attempt++.
FetchBackoff(r) ==
    /\ mv[r].pc = "backoff"
    /\ mv' = [mv EXCEPT ![r] = [@ EXCEPT !.pc = "fetch",
                                         !.waits = Append(@, Backoff(mv[r].attempt)),
                                         !.attempt = @ + 1]]
    /\ UNCHANGED <<now, moviesCache, aiCache, history, ai, lastPut, fmt, env, gen, lastUpsert>>

\* getMovieDetails(imdbId), after its fetchOmdb: the record, or null when the
\* provider reports no match and when fetchOmdb threw.
getMovieDetails(fres) ==
    IF fres.kind = "data" /\ fres.data.Response = Str("True")
    THEN formatMovieData(fres.data)
    ELSE Null

\* The requests in flight.
InFlight == {r \in DOMAIN mv : mv[r].pc \notin {"idle", "done"}}

\* Whether a statement sent to the pool returns (TRUE) or throws: it may throw
\* where the database is flaky.
DbOutcomes == IF env.dbFlaky THEN {TRUE, FALSE} ELSE {TRUE}

\* The call of cacheMovie for record md: the write and the note of it.
CacheWrite(md) ==
    /\ moviesCache' = cacheMovie(moviesCache, md, now)
    /\ lastUpsert' = [lastUpsert EXCEPT ![md.imdb_id.s] = [rec |-> md, at |-> now]]

\* await cacheMovie(md): the write, or, the statement having thrown, the log of
\* cacheMovie's own catch.
AwaitCacheMovie(md) ==
    \E dbOk \in DbOutcomes :
        IF dbOk THEN CacheWrite(md) ELSE UNCHANGED <<moviesCache, lastUpsert>>

(* router.get('/details/:imdbId') *)
DetailsStart(r, imdbId) ==
    /\ mv[r].pc = "idle"
    /\ mv' = [mv EXCEPT ![r] = [@ EXCEPT !.pc = "d_select", !.kind = "details",
                                         !.arg = Str(imdbId), !.during = InFlight]]
    /\ UNCHANGED <<now, moviesCache, aiCache, history, ai, lastPut, fmt, env, gen, lastUpsert>>

\* await pool.execute('SELECT * FROM movies_cache WHERE imdb_id = ?'), then the
\* cached row, or the call of getMovieDetails; the 500 of the handler's catch
\* when the statement threw.
DetailsSelect(r) ==
    /\ mv[r].pc = "d_select"
    /\ LET cachedMovie == FindById(moviesCache, mv[r].arg)
       IN  \E dbOk \in DbOutcomes :
               mv' = [mv EXCEPT ![r] =
                        IF ~dbOk
                        THEN Respond(@, 500, [error |-> "Error fetching movie details"])
                        ELSE IF cachedMovie # {}
                        THEN Respond(@, 200, [source |-> "cache",
                                              movie |-> CHOOSE row \in cachedMovie : TRUE])
                        ELSE CallFetchOmdb(@, "i", mv[r].arg.s, "d_got")]
    /\ UNCHANGED <<now, moviesCache, aiCache, history, ai, lastPut, fmt, env, gen, lastUpsert>>

\* getMovieDetails returned: 404 on null, else on to await cacheMovie.
DetailsGot(r) ==
    /\ mv[r].pc = "d_got"
    /\ LET movieDetails == getMovieDetails(mv[r].fres)
       IN  mv' = [mv EXCEPT ![r] =
                    IF movieDetails = Null
                    THEN Respond(@, 404, [error |-> "Movie not found"])
                    ELSE [@ EXCEPT !.pc = "d_cache", !.md = movieDetails]]
    /\ UNCHANGED <<now, moviesCache, aiCache, history, ai, lastPut, fmt, env, gen, lastUpsert>>

\* await cacheMovie(movieDetails), then res.json.
DetailsCache(r) ==
    /\ mv[r].pc = "d_cache"
    /\ AwaitCacheMovie(mv[r].md)
    /\ mv' = [mv EXCEPT ![r] = Respond(@, 200, [source |-> "omdb", movie |-> mv[r].md])]
    /\ UNCHANGED <<now, aiCache, history, ai, lastPut, fmt, env, gen>>

(* router.get('/search') *)
SearchStart(r, title) ==
    /\ mv[r].pc = "idle"
    /\ mv' = [mv EXCEPT ![r] =
                IF Falsy(title)
                THEN Respond([@ EXCEPT !.kind = "search", !.arg = title],
                             400, [error |-> "Title parameter is required"])
                ELSE [@ EXCEPT !.pc = "s_select", !.kind = "search", !.arg = title,
                               !.during = InFlight]]
    /\ UNCHANGED <<now, moviesCache, aiCache, history, ai, lastPut, fmt, env, gen, lastUpsert>>

\* The SELECT by title returned or threw: the cached rows, the call of
\* fetchOmdb, or the 500 of the handler's catch.
SearchSelect(r) ==
    /\ mv[r].pc = "s_select"
    /\ LET cachedMovies == FindByTitle(moviesCache, mv[r].arg.s, 10)
       IN  \E dbOk \in DbOutcomes :
               mv' = [mv EXCEPT ![r] =
                        IF ~dbOk
                        THEN Respond(@, 500, [error |-> "Error searching movies"])
                        ELSE IF Len(cachedMovies) > 0
                        THEN Respond(@, 200, [source |-> "cache", movies |-> cachedMovies,
                                              totalResults |-> IntNum(Len(cachedMovies))])
                        ELSE CallFetchOmdb(@, "s", mv[r].arg.s, "s_got")]
    /\ UNCHANGED <<now, moviesCache, aiCache, history, ai, lastPut, fmt, env, gen, lastUpsert>>

\* The loop over movies.slice(0, 8) at index q.idx: the next getMovieDetails, or
\* the response when the list is done.
SearchLoop(q) ==
    IF q.idx <= Len(q.movies)
    THEN CallFetchOmdb(q, "i", q.movies[q.idx].imdbID.s, "s_item")
    ELSE Respond(q, 200, [source |-> "omdb", movies |-> q.detailed,
                          totalResults |-> Or(q.total, IntNum(Len(q.detailed)))])

\* fetchOmdb returned or threw: 502, 404, or the loop over the results.
SearchGot(r) ==
    /\ mv[r].pc = "s_got"
    /\ LET fres == mv[r].fres
       IN  mv' = [mv EXCEPT ![r] =
                    IF fres.kind = "throw"
                    THEN Respond(@, 502, [error |-> "OMDb API request failed"])
                    ELSE IF fres.data.Response = Str("False")
                    THEN Respond(@, 404, [error |-> Or(Get(fres.data, "Error"),
                                                       Str("No movies found")).s])
                    ELSE SearchLoop([@ EXCEPT !.movies = Limit(fres.data.Search, 8),
                                              !.idx = 1, !.detailed = <<>>,
                                              !.total = ParseInt(fres.data.totalResults)])]
    /\ UNCHANGED <<now, moviesCache, aiCache, history, ai, lastPut, fmt, env, gen, lastUpsert>>

\* getMovieDetails returned inside the loop.
SearchItem(r) ==
    /\ mv[r].pc = "s_item"
    /\ LET details == getMovieDetails(mv[r].fres)
       IN  mv' = [mv EXCEPT ![r] =
                    IF details # Null
                    THEN [@ EXCEPT !.pc = "s_cache", !.md = details,
                                   !.detailed = Append(@, details)]
                    ELSE SearchLoop([@ EXCEPT !.idx = @ + 1])]
    /\ UNCHANGED <<now, moviesCache, aiCache, history, ai, lastPut, fmt, env, gen, lastUpsert>>

\* await cacheMovie(details) inside the loop.
SearchCache(r) ==
    /\ mv[r].pc = "s_cache"
    /\ AwaitCacheMovie(mv[r].md)
    /\ mv' = [mv EXCEPT ![r] = SearchLoop([@ EXCEPT !.idx = @ + 1])]
    /\ UNCHANGED <<now, aiCache, history, ai, lastPut, fmt, env, gen>>

(***************************************************************************)
(* Time, in hours.                                                         *)
(***************************************************************************)
MaxTime == 24

TickHours == 24

Tick ==
    /\ now + TickHours <= MaxTime
    /\ now' = now + TickHours
    /\ UNCHANGED <<moviesCache, aiCache, history, ai, lastPut, mv, fmt, env, gen, lastUpsert>>

NoUpsert == [at |-> -1]

MovieRequests == {"m1", "m2"}

InitMovies ==
    /\ now = 0
    /\ moviesCache = {}
    /\ aiCache = {}
    /\ history = <<>>
    /\ ai = <<>>
    /\ lastPut = <<>>
    /\ fmt = <<>>
    /\ env = [omdbKey |-> TRUE, dbFlaky |-> FALSE]
    /\ gen = <<>>
    /\ mv = [r \in MovieRequests |-> IdleRequest]
    /\ lastUpsert = [id \in ImdbIds |-> NoUpsert]

NextMovies ==
    \/ Tick
    \/ \E r \in MovieRequests :
        \/ \E imdbId \in ImdbIds : DetailsStart(r, imdbId)
        \/ DetailsSelect(r)
        \/ DetailsGot(r)
        \/ DetailsCache(r)
        \/ \E title \in SearchTitles : SearchStart(r, title)
        \/ SearchSelect(r)
        \/ SearchGot(r)
        \/ SearchItem(r)
        \/ SearchCache(r)
        \/ FetchAttempt(r)
        \/ FetchBackoff(r)

SpecMovies == InitMovies /\ [][NextMovies]_vars

(***************************************************************************)
(* The movie store and the metadata client: C5 to C9, under SpecMovies.    *)
(***************************************************************************)
\* The row of the store agrees with record md in each of the twelve columns.
SameFields(row, md) == \A c \in MovieColumns : row[c] = md[c]

\* C5: round trip of the movie store.  After cacheMovie(record) for a record
\* with an externalId, the lookup by that externalId returns a row equal to the
\* record in every field, year, poster and rating absent included.
C5_RoundTrip ==
    \A id \in ImdbIds :
        lastUpsert[id] # NoUpsert =>
            \E row \in FindById(moviesCache, Str(id)) : SameFields(row, lastUpsert[id].rec)

\* A request is about to run cacheMovie.
AtCacheMovie(r) == mv[r].pc \in {"d_cache", "s_cache"}

\* C6: cacheMovie is an idempotent upsert that refreshes on touch.  A call for an
\* externalId that is already stored leaves exactly one row for it, with every
\* field overwritten and cachedAt set to the time of the write, and one more
\* call with the same record changes nothing.
C6_UpsertRefreshesOnTouch ==
    [][\A r \in MovieRequests :
          (/\ AtCacheMovie(r)
           /\ mv'[r] # mv[r]
           /\ FindById(moviesCache, mv[r].md.imdb_id) # {})
          => LET rows == FindById(moviesCache', mv[r].md.imdb_id)
             IN  /\ Cardinality(rows) = 1
                 /\ \A row \in rows : /\ SameFields(row, mv[r].md)
                                      /\ row.created_at = IntNum(now)
                 /\ cacheMovie(moviesCache', mv[r].md, now) = moviesCache']_vars

\* Requests a and b ran at the same time: one started while the other was in flight.
Concurrent(a, b) == a # b /\ (a \in mv[b].during \/ b \in mv[a].during)

\* C7: upsert races are last-write-wins.  When two concurrent requests resolved
\* the same externalId and both called cacheMovie, both writes took effect: the
\* store holds exactly one row for the externalId, with the fields of the call
\* that completed last.
C7_LastWriteWins ==
    \A a, b \in MovieRequests :
        (/\ Concurrent(a, b)
         /\ mv[a].pc = "done" /\ mv[b].pc = "done"
         /\ mv[a].kind = "details" /\ mv[b].kind = "details"
         /\ mv[a].arg = mv[b].arg
         /\ mv[a].resp.status = 200 /\ mv[a].resp.body.source = "omdb"
         /\ mv[b].resp.status = 200 /\ mv[b].resp.body.source = "omdb")
        => LET rows == FindById(moviesCache, mv[a].arg)
           IN  /\ Cardinality(rows) = 1
               /\ \A row \in rows : SameFields(row, lastUpsert[mv[a].arg.s].rec)

\* A call of fetchOmdb is under way or has ended.
InFetchOmdb(q) == q.pc \in {"fetch", "backoff"} \/ q.fres.kind # "none"

EndedNotFound(q) ==
    /\ q.pc = "done" /\ q.ret \in {"d_got", "s_got"}
    /\ q.fres.kind = "data" /\ q.fres.data.Response = Str("False")

\* The request ended on fetchOmdb giving up after its retries.
EndedUnavailable(q) ==
    /\ q.pc = "done" /\ q.ret \in {"d_got", "s_got"}
    /\ q.fres.kind = "throw"

\* C9: on both metadata paths, search by title and fetch by id on a cache miss,
\* the outcome for "the provider reports no match" differs from the outcome for
\* "the provider is unreachable after all retries".
C9_NotFoundDistinct ==
    \A a, b \in MovieRequests :
        (mv[a].kind = mv[b].kind /\ EndedNotFound(mv[a]) /\ EndedUnavailable(mv[b]))
        => mv[a].resp # mv[b].resp

(***************************************************************************)
(* Normalisation by the two formatMovieData of the routes: C10, under      *)
(* SpecFormat.  A payload is one of the provider's, less the keys it may   *)
(* fail to carry.                                                          *)
(***************************************************************************)
MaxMissing == 1

Without(omdbData, keys) == [k \in (DOMAIN omdbData) \ keys |-> omdbData[k]]

FormatPayloads ==
    {Without(p, keys) :
        p \in {Inception, Baraka},
        keys \in {K \in SUBSET (PayloadKeys \ {"imdbID", "Title"}) : Cardinality(K) <= MaxMissing}}

\* The Year and imdbRating texts the provider may send.
YearTexts == {"2010", "1992", "N/A"}

RatingTexts == {"8.8", "10.0", "7", "0.0", "0", "N/A"}

NumericPayloads ==
    {[Inception EXCEPT !.Year = Str(y), !.imdbRating = Str(r)] :
        y \in YearTexts, r \in RatingTexts}

FormatIdle == [pc |-> "idle"]

\* A provider payload arrives.
FormatReceive(omdbData) ==
    /\ fmt.pc = "idle"
    /\ fmt' = [pc |-> "received", omdbData |-> omdbData]
    /\ UNCHANGED <<now, moviesCache, aiCache, history, ai, lastPut, mv, env, gen, lastUpsert>>

\* The search / details / trending path: formatMovieData, then cacheMovie.
FormatViaMovies ==
    /\ fmt.pc \in {"received", "rec"}
    /\ fmt' = [fmt EXCEPT !.pc = IF fmt.pc = "rec" THEN "both" ELSE "movies"]
                @@ [movies |-> formatMovieData(fmt.omdbData),
                    storedMovies |-> cacheMovie({}, formatMovieData(fmt.omdbData), now)]
    /\ UNCHANGED <<now, moviesCache, aiCache, history, ai, lastPut, mv, env, gen, lastUpsert>>

\* The recommendation-reconciliation path: its own formatMovieData, then its cacheMovie.
FormatViaRec ==
    /\ fmt.pc \in {"received", "movies"}
    /\ fmt' = [fmt EXCEPT !.pc = IF fmt.pc = "movies" THEN "both" ELSE "rec"]
                @@ [rec |-> formatMovieDataRec(fmt.omdbData),
                    storedRec |-> cacheMovie({}, formatMovieDataRec(fmt.omdbData), now)]
    /\ UNCHANGED <<now, moviesCache, aiCache, history, ai, lastPut, mv, env, gen, lastUpsert>>

InitFormat ==
    /\ now = 0
    /\ moviesCache = {}
    /\ aiCache = {}
    /\ history = <<>>
    /\ ai = <<>>
    /\ lastPut = <<>>
    /\ mv = <<>>
    /\ env = [omdbKey |-> TRUE, dbFlaky |-> FALSE]
    /\ gen = <<>>
    /\ lastUpsert = <<>>
    /\ fmt = FormatIdle

NextFormat ==
    \/ \E omdbData \in FormatPayloads \cup NumericPayloads : FormatReceive(omdbData)
    \/ FormatViaMovies
    \/ FormatViaRec

SpecFormat == InitFormat /\ [][NextFormat]_vars

\* C10: normalisation is uniform across callers.  For every provider payload,
\* payloads with missing fields included, the record of the reconciliation path
\* equals the record of the search / details / trending path in each field of a
\* movie record, and so does the row each path stores.
C10_UniformNormalization ==
    fmt.pc = "both" =>
        /\ \A c \in MovieColumns : fmt.rec[c] = fmt.movies[c]
        /\ fmt.storedRec = fmt.storedMovies

\* The number a Year or imdbRating text denotes, null when it denotes none.
Denoted(text) ==
    CASE text = "2010" -> IntNum(2010)
      [] text = "1992" -> IntNum(1992)
      [] text = "8.8"  -> Num(88, 1)
      [] text = "10.0" -> IntNum(10)
      [] text = "7"    -> IntNum(7)
      [] text = "0.0"  -> IntNum(0)
      [] text = "0"    -> IntNum(0)
      [] text = "N/A"  -> Null

\* The payload carries a Year and an imdbRating text of the tables above.
TextsKnown(omdbData) ==
    /\ Get(omdbData, "Year").t = "str" /\ Get(omdbData, "Year").s \in YearTexts
    /\ Get(omdbData, "imdbRating").t = "str" /\ Get(omdbData, "imdbRating").s \in RatingTexts

Coerced(record, omdbData) ==
    /\ record.year = Denoted(omdbData.Year.s)
    /\ record.imdb_rating = Denoted(omdbData.imdbRating.s)

\* C11: formatMovieData coerces the year and rating strings to numbers.  Every
\* numeric string, one denoting 0 included, yields that number, and every
\* non-numeric string yields absent (null), in both formatMovieData.
C11_NumericCoercion ==
    (fmt.pc # "idle" /\ TextsKnown(fmt.omdbData)) =>
        /\ "movies" \in DOMAIN fmt => Coerced(fmt.movies, fmt.omdbData)
        /\ "rec" \in DOMAIN fmt => Coerced(fmt.rec, fmt.omdbData)

(***************************************************************************)
(* JSON.parse, for texts without escape sequences and exponents.  A parse  *)
(* step returns [ok, v, i]: the value read and the index after it.         *)
(***************************************************************************)
\* The character of s at i, "" past the end.
At(s, i) == IF i >= 1 /\ i <= Len(s) THEN CharAt(s, i) ELSE ""

JsonFail == [ok |-> FALSE, v |-> Null, i |-> 0]

JsonOk(v, i) == [ok |-> TRUE, v |-> v, i |-> i]

\* The index of the quote that closes a string whose content starts at i, 0 when
\* the string is not closed or holds a control character or a backslash.
RECURSIVE StringEnd(_, _)
StringEnd(s, i) ==
    IF i > Len(s) THEN 0
    ELSE IF CharAt(s, i) = "\"" THEN i
    ELSE IF CharAt(s, i) \in {"\n", "\r", "\t", "\\"} THEN 0
    ELSE StringEnd(s, i + 1)

JsonString(s, i) ==
    IF At(s, i) # "\"" THEN JsonFail
    ELSE LET j == StringEnd(s, i + 1)
         IN  IF j = 0 THEN JsonFail ELSE JsonOk(Str(SubSeq(s, i + 1, j - 1)), j + 1)

JsonNumber(s, i) ==
    LET neg == At(s, i) = "-"
        b == IF neg THEN i + 1 ELSE i
        c == DigitsEnd(s, b)
        dot == At(s, c) = "."
        d == IF dot THEN DigitsEnd(s, c + 1) ELSE c
        whole == DigitsValue(s, b, c, 0)
    IN  IF c = b \/ (c - b > 1 /\ At(s, b) = "0") \/ (dot /\ d = c + 1) THEN JsonFail
        ELSE LET m == IF dot THEN Normal(DigitsValue(s, c + 1, d, whole), d - (c + 1))
                      ELSE IntNum(whole)
             IN  JsonOk(Num((IF neg THEN -1 ELSE 1) * m.n, m.e), d)

JsonLiteral(s, i, word, v) ==
    IF i + Len(word) - 1 <= Len(s) /\ SubSeq(s, i, i + Len(word) - 1) = word
    THEN JsonOk(v, i + Len(word)) ELSE JsonFail

RECURSIVE JsonValue(_, _)
RECURSIVE JsonMembers(_, _, _)
RECURSIVE JsonElements(_, _, _)

\* The members of an object from the key at or after i, acc holding those read.
JsonMembers(s, i, acc) ==
    LET k == JsonString(s, SkipSpace(s, i))
    IN  IF ~k.ok THEN JsonFail
        ELSE LET b == SkipSpace(s, k.i)
             IN  IF At(s, b) # ":" THEN JsonFail
                 ELSE LET v == JsonValue(s, b + 1)
                      IN  IF ~v.ok THEN JsonFail
                          ELSE LET c == SkipSpace(s, v.i)
                                   next == [x \in (DOMAIN acc) \cup {k.v.s} |->
                                               IF x = k.v.s THEN v.v ELSE acc[x]]
                               IN  IF At(s, c) = "," THEN JsonMembers(s, c + 1, next)
                                   ELSE IF At(s, c) = "}" THEN JsonOk(Obj(next), c + 1)
                                   ELSE JsonFail

\* The elements of an array from the value at or after i, acc holding those read.
JsonElements(s, i, acc) ==
    LET v == JsonValue(s, i)
    IN  IF ~v.ok THEN JsonFail
        ELSE LET c == SkipSpace(s, v.i)
             IN  IF At(s, c) = "," THEN JsonElements(s, c + 1, Append(acc, v.v))
                 ELSE IF At(s, c) = "]" THEN JsonOk(Arr(Append(acc, v.v)), c + 1)
                 ELSE JsonFail

JsonValue(s, i) ==
    LET a == SkipSpace(s, i)
        c == At(s, a)
    IN  IF c = "{"
        THEN IF At(s, SkipSpace(s, a + 1)) = "}"
             THEN JsonOk(Obj(<<>>), SkipSpace(s, a + 1) + 1)
             ELSE JsonMembers(s, a + 1, <<>>)
        ELSE IF c = "["
        THEN IF At(s, SkipSpace(s, a + 1)) = "]"
             THEN JsonOk(Arr(<<>>), SkipSpace(s, a + 1) + 1)
             ELSE JsonElements(s, a + 1, <<>>)
        ELSE IF c = "\"" THEN JsonString(s, a)
        ELSE IF c = "t" THEN JsonLiteral(s, a, "true", Bool(TRUE))
        ELSE IF c = "f" THEN JsonLiteral(s, a, "false", Bool(FALSE))
        ELSE IF c = "n" THEN JsonLiteral(s, a, "null", Null)
        ELSE JsonNumber(s, a)

\* JSON.parse(text): [ok, v], ok FALSE where it throws a SyntaxError.
JsonParse(text) ==
    LET r == JsonValue(text, 1)
    IN  IF r.ok /\ SkipSpace(text, r.i) > Len(text) THEN [ok |-> TRUE, v |-> r.v]
        ELSE [ok |-> FALSE, v |-> Null]

(***************************************************************************)
(* recommendations.js: extractMovieTitlesFromText.  A regular expression   *)
(* is an operator that returns the captures of matchAll in order.  The     *)
(* texts carry no Unicode bullet.                                          *)
(***************************************************************************)
UpperLetters ==
    {"A", "B", "C", "D", "E", "F", "G", "H", "I", "J", "K", "L", "M",
     "N", "O", "P", "Q", "R", "S", "T", "U", "V", "W", "X", "Y", "Z"}

Letters == UpperLetters \cup {LowerChar(c) : c \in UpperLetters}

\* \w
WordChars == Letters \cup Digits \cup {"_"}

\* The index of the first character of s at or after i that is in set, Len(s) + 1
\* when there is none.
RECURSIVE FindIn(_, _, _)
FindIn(s, i, set) ==
    IF i > Len(s) \/ CharAt(s, i) \in set THEN i ELSE FindIn(s, i + 1, set)

\* The index after the run of characters of set that starts at i.
RECURSIVE RunEnd(_, _, _)
RunEnd(s, i, set) ==
    IF i <= Len(s) /\ CharAt(s, i) \in set THEN RunEnd(s, i + 1, set) ELSE i

\* \s*([^\n\r]+) from index p: the capture and the index after the match.  With
\* nothing but white space left the capture would be white space, which no
\* title survives: it is reported as no match.
RestOfLine(s, p) ==
    LET q == SkipSpace(s, p)
        e == FindIn(s, q, {"\n", "\r"})
    IN  IF q > Len(s) THEN [ok |-> FALSE, cap |-> "", next |-> Len(s) + 1]
        ELSE [ok |-> TRUE, cap |-> SubSeq(s, q, e - 1), next |-> e]

\* /"([^"]+)"/g
RECURSIVE Quoted(_, _, _)
Quoted(s, i, acc) ==
    LET a == FindIn(s, i, {"\""})
        b == FindIn(s, a + 1, {"\""})
    IN  IF a > Len(s) \/ b > Len(s) THEN acc
        ELSE IF b = a + 1 THEN Quoted(s, a + 1, acc)
        ELSE Quoted(s, b + 1, Append(acc, SubSeq(s, a + 1, b - 1)))

\* /\d+\.\s*([^\n\r]+)/g
RECURSIVE Numbered(_, _, _)
Numbered(s, i, acc) ==
    LET a == FindIn(s, i, Digits)
        c == DigitsEnd(s, a)
        r == RestOfLine(s, c + 1)
    IN  IF a > Len(s) THEN acc
        ELSE IF At(s, c) # "." THEN Numbered(s, c, acc)
        ELSE IF ~r.ok THEN acc
        ELSE Numbered(s, r.next, Append(acc, r.cap))

\* /[-*•]\s*([^\n\r]+)/g
RECURSIVE Bulleted(_, _, _)
Bulleted(s, i, acc) ==
    LET a == FindIn(s, i, {"-", "*"})
        r == RestOfLine(s, a + 1)
    IN  IF a > Len(s) \/ ~r.ok THEN acc
        ELSE Bulleted(s, r.next, Append(acc, r.cap))

\* s has word (in lower case) at i, in any case.
HasWordAt(s, i, word) ==
    i + Len(word) - 1 <= Len(s) /\ ToLowerCase(SubSeq(s, i, i + Len(word) - 1)) = word

\* /Title:\s*([^\n\r]+)/gi and /Movie:\s*([^\n\r]+)/gi
RECURSIVE Prefixed(_, _, _, _)
Prefixed(s, i, word, acc) ==
    IF i > Len(s) THEN acc
    ELSE IF ~HasWordAt(s, i, word) THEN Prefixed(s, i + 1, word, acc)
    ELSE LET r == RestOfLine(s, i + Len(word))
         IN  IF ~r.ok THEN acc ELSE Prefixed(s, r.next, word, Append(acc, r.cap))

\* \(\d{4}\) at i
YearAt(s, i) ==
    /\ At(s, i) = "(" /\ At(s, i + 5) = ")"
    /\ \A k \in 1..4 : At(s, i + k) \in Digits

\* /(\b[A-Z][a-zA-Z\s]+\(\d{4}\))/g
RECURSIVE TitledYear(_, _, _)
TitledYear(s, i, acc) ==
    LET e == RunEnd(s, i + 1, Letters \cup WhiteSpace)
    IN  IF i > Len(s) THEN acc
        ELSE IF /\ CharAt(s, i) \in UpperLetters
                /\ At(s, i - 1) \notin WordChars
                /\ e > i + 1
                /\ YearAt(s, e)
        THEN TitledYear(s, e + 6, Append(acc, SubSeq(s, i, e + 5)))
        ELSE TitledYear(s, i + 1, acc)

\* matchAll of the k-th pattern of the chain.
Matches(text, k) ==
    CASE k = 1 -> Quoted(text, 1, <<>>)
      [] k = 2 -> Numbered(text, 1, <<>>)
      [] k = 3 -> Bulleted(text, 1, <<>>)
      [] k = 4 -> Prefixed(text, 1, "title:", <<>>)
      [] k = 5 -> Prefixed(text, 1, "movie:", <<>>)
      [] k = 6 -> TitledYear(text, 1, <<>>)

\* replace(/^\d+\.\s*/, '')
StripNumbering(s) ==
    LET c == DigitsEnd(s, 1)
    IN  IF c > 1 /\ At(s, c) = "." THEN SubSeq(s, SkipSpace(s, c + 1), Len(s)) ELSE s

\* replace(/\(\d{4}\)/, ''): the first year in parentheses.
RECURSIVE StripYear(_, _)
StripYear(s, i) ==
    IF i > Len(s) THEN s
    ELSE IF YearAt(s, i) THEN SubSeq(s, 1, i - 1) \o SubSeq(s, i + 6, Len(s))
    ELSE StripYear(s, i + 1)

\* replace(/^(Title|Movie):\s*/gi, '')
StripPrefix(s) ==
    IF HasWordAt(s, 1, "title:") \/ HasWordAt(s, 1, "movie:")
    THEN SubSeq(s, SkipSpace(s, 7), Len(s)) ELSE s

\* replace(/[^\w\s\-:!?&.,]/g, '')
RECURSIVE StripSpecial(_)
StripSpecial(s) ==
    IF Len(s) = 0 THEN ""
    ELSE IF Len(s) = 1
    THEN IF s \in WordChars \cup WhiteSpace \cup {"-", ":", "!", "?", "&", ".", ","}
         THEN s ELSE ""
    ELSE LET half == Len(s) \div 2
         IN  StripSpecial(SubSeq(s, 1, half)) \o StripSpecial(SubSeq(s, half + 1, Len(s)))

\* The clean-up of one capture.
CleanTitle(cap) ==
    Trim(StripSpecial(StripPrefix(Trim(StripYear(StripNumbering(Trim(cap)), 1)))))

InSeq(x, seq) == \E k \in 1..Len(seq) : seq[k] = x

\* The inner loop over the matches of one pattern.
RECURSIVE CollectTitles(_, _, _)
CollectTitles(caps, k, titles) ==
    IF k > Len(caps) THEN titles
    ELSE LET title == CleanTitle(caps[k])
         IN  CollectTitles(caps, k + 1,
                 IF Len(title) > 2 /\ Len(title) < 100 /\ ~InSeq(title, titles)
                 THEN Append(titles, title) ELSE titles)

\* The loop over the patterns, left once five titles are collected.
RECURSIVE PatternChain(_, _, _)
PatternChain(text, k, titles) ==
    IF k > 6 \/ Len(titles) >= 5 THEN titles
    ELSE PatternChain(text, k + 1, CollectTitles(Matches(text, k), 1, titles))

\* text.split(/\n|\r\n/) from index i, line being the part read since the last break.
RECURSIVE SplitLines(_, _, _, _)
SplitLines(text, i, from, acc) ==
    IF i > Len(text) THEN Append(acc, SubSeq(text, from, Len(text)))
    ELSE IF CharAt(text, i) = "\n"
    THEN SplitLines(text, i + 1, i + 1, Append(acc, SubSeq(text, from, i - 1)))
    ELSE IF CharAt(text, i) = "\r" /\ At(text, i + 1) = "\n"
    THEN SplitLines(text, i + 2, i + 2, Append(acc, SubSeq(text, from, i - 1)))
    ELSE SplitLines(text, i + 1, from, acc)

\* replace(/^[-*•]\s*/, '')
StripBullet(s) ==
    IF At(s, 1) \in {"-", "*"} THEN SubSeq(s, SkipSpace(s, 2), Len(s)) ELSE s

\* The last-resort loop over the non-empty lines.
RECURSIVE LineTitles(_, _, _)
LineTitles(lines, k, titles) ==
    IF k > Len(lines) \/ Len(titles) >= 5 THEN titles
    ELSE LET cleanLine == Trim(StripBullet(StripNumbering(lines[k])))
         IN  LineTitles(lines, k + 1,
                 IF Len(Trim(lines[k])) > 0 /\ Len(cleanLine) > 2 /\ Len(cleanLine) < 100
                 THEN Append(titles, cleanLine) ELSE titles)

\* titles.slice(0, 5)
Slice5(titles) == SubSeq(titles, 1, IF Len(titles) < 5 THEN Len(titles) ELSE 5)

extractMovieTitlesFromText(text) ==
    LET titles == PatternChain(text, 1, <<>>)
    IN  Slice5(IF Len(titles) = 0
               THEN LineTitles(SplitLines(text, 1, 1, <<>>), 1, <<>>)
               ELSE titles)

(***************************************************************************)
(* recommendations.js: POST /ai and the recommendation cache.              *)
(***************************************************************************)
\* crypto.createHash('sha256').update(s).digest('hex'): a digest of s, taken to
\* be free of collisions, so two hashes are equal exactly when the texts are.
Sha256Hex(s) == "sha256:" \o s

\* A hash that keeps the case of the prompt.
promptHashCased(prompt) == Sha256Hex(Trim(prompt))

\* The prompt hash of POST /ai.
promptHash(prompt) == Sha256Hex(Trim(ToLowerCase(prompt)))

\* A reader that still takes a row at the instant it expires.
LiveAtExpiry(row, t) == row.expires_at >= t

\* expires_at > NOW()
Live(row, t) == row.expires_at > t

\* SELECT * FROM ai_recommendations_cache WHERE prompt_hash = ? AND expires_at > NOW()
FindRecommendations(cache, hash, t) ==
    {row \in cache : row.prompt_hash = hash /\ Live(row, t)}

\* DATE_ADD(NOW(), INTERVAL 24 HOUR)
TtlHours == 24

\* prompt.length > 500
MaxPromptLength == 500

\* A length test that also turns away a prompt of exactly the limit.
TooLongAtLimit(prompt) == Len(prompt.s) >= MaxPromptLength

TooLong(prompt) == Len(prompt.s) > MaxPromptLength

\* A text of n characters.
RECURSIVE Filler(_)
Filler(n) ==
    IF n = 0 THEN ""
    ELSE IF n % 2 = 0 THEN LET half == Filler(n \div 2) IN half \o half
    ELSE "a" \o Filler(n - 1)

\* INSERT INTO ai_recommendations_cache (...) VALUES (?, ?, ?, DATE_ADD(NOW(),
\* INTERVAL 24 HOUR)): prompt_hash is UNIQUE, so the statement fails on a row
\* with the same hash, live or expired.
InsertRecommendations(cache, hash, prompt, response, t) ==
    IF \E row \in cache : row.prompt_hash = hash
    THEN [ok |-> FALSE, cache |-> cache]
    ELSE [ok |-> TRUE,
          cache |-> cache \cup {[prompt_hash |-> hash, user_prompt |-> prompt,
                                 recommendations |-> response,
                                 created_at |-> t, expires_at |-> t + TtlHours]}]

\* JSON.stringify(response) as the driver reads it back: a property whose value
\* is undefined is left out of its object, NaN becomes null.
StoredItem(item) ==
    [f \in {g \in DOMAIN item : item[g] # Undefined} |->
        IF item[f] = NaN THEN Null ELSE item[f]]

StoredJson(response) ==
    [response EXCEPT !.recommendations = [k \in 1..Len(@) |-> StoredItem(@[k])]]

\* v[key] of a parsed value.
Prop(v, key) == IF v.t = "obj" /\ key \in DOMAIN v.o THEN v.o[key] ELSE Undefined

\* The value of the JSON column as the driver hands it over.  A row the handler
\* wrote comes back as the response object (a record here); other values are a
\* JSON string, number, null, array or object.
\* typeof raw === 'object' with raw truthy.
IsObject(raw) == "t" \notin DOMAIN raw \/ raw.t \in {"obj", "arr"}

\* A plain object.
PlainObject(raw) == "t" \notin DOMAIN raw \/ raw.t = "obj"

\* raw.toString() === '[object Object]': a plain object, or an array whose one
\* element is a plain object.
ToStringIsObject(raw) ==
    \/ PlainObject(raw)
    \/ raw.t = "arr" /\ Len(raw.a) = 1 /\ PlainObject(raw.a[1])

\* Array.isArray(v[key]) and the array.
ArrayProp(v, key) ==
    IF "t" \notin DOMAIN v
    THEN IF key = "recommendations" /\ key \in DOMAIN v
         THEN [ok |-> TRUE, list |-> v[key]] ELSE [ok |-> FALSE, list |-> <<>>]
    ELSE IF v.t = "obj" /\ key \in DOMAIN v.o /\ v.o[key].t = "arr"
    THEN [ok |-> TRUE, list |-> v.o[key].a]
    ELSE [ok |-> FALSE, list |-> <<>>]

\* The try block: parsed, null when JSON.parse throws.
ParsedPayload(raw) ==
    IF ~IsObject(raw) /\ raw.t = "str"
    THEN LET r == JsonParse(raw.s) IN IF r.ok THEN r.v ELSE Null
    ELSE IF IsObject(raw) /\ ToStringIsObject(raw) THEN Null
    ELSE raw

\* The list found in parsed: the array itself, its recommendations, or its data.
Normalized(parsed) ==
    IF Falsy(parsed) THEN <<>>
    ELSE IF parsed.t = "arr" THEN parsed.a
    ELSE IF ArrayProp(parsed, "recommendations").ok
    THEN ArrayProp(parsed, "recommendations").list
    ELSE IF ArrayProp(parsed, "data").ok THEN ArrayProp(parsed, "data").list
    ELSE <<>>

\* The final fallback: raw.recommendations when the list is empty.
FinalList(raw, normalized) ==
    IF Len(normalized) = 0 /\ IsObject(raw) /\ ArrayProp(raw, "recommendations").ok
    THEN ArrayProp(raw, "recommendations").list
    ELSE normalized

\* parsed && parsed.originalPrompt
ParsedPrompt(parsed) == IF Falsy(parsed) THEN parsed ELSE Prop(parsed, "originalPrompt")

CachedBody(row, raw, parsed) ==
    [source |-> "cache", recommendations |-> FinalList(raw, Normalized(parsed)),
     originalPrompt |-> Or(Or(row.user_prompt, ParsedPrompt(parsed)), Str(""))]

\* The body sent for a cache hit.
CachedResponse(row) == CachedBody(row, row.recommendations, ParsedPayload(row.recommendations))

\* error.response.status of a failed axios.post and the message of its body,
\* undefined when the body carries none.
HttpFailure(status, message) == [kind |-> "http", status |-> status, message |-> message]

\* The request got no response (time-out, connection refused).
NetworkFailure == [kind |-> "network"]

\* process.env.GROQ_API_KEY is not set.
NoGroqKey == [kind |-> "nokey"]

\* response.data.choices[0].message.content
Completion(aiContent) == [kind |-> "ok", aiContent |-> aiContent]

\* v.key: undefined unless v is an object that carries the key.
Failure(error, details) == [success |-> FALSE, error |-> Str(error), details |-> details]

\* The catch block of generateAIRecommendations for an error thrown in its body.
Thrown(message) == Failure("Error generating AI recommendations", Str(message))

\* The catch block of generateAIRecommendations for a failed axios.post.
RequestFailed(result) ==
    LET message == Str("Request failed with status code " \o ToString(result.status))
    IN  CASE result.status = 400 ->
                Failure("Invalid request format or parameters",
                        Or(result.message, Str("Bad request to AI service")))
          [] result.status = 401 ->
                Failure("Authentication failed", Str("Invalid or expired API key"))
          [] result.status = 429 ->
                Failure("Rate limit exceeded", Str("Too many requests. Please try again later."))
          [] result.status \in {500, 502, 503} ->
                Failure("AI service unavailable",
                        Str("The AI service is temporarily down. Please try again later."))
          [] OTHER ->
                Failure("Error generating AI recommendations", Or(result.message, message))

\* parsedResponse.movies.map(m => ({title, year, reason})); reading a property
\* of null throws.
MapMovies(movies) ==
    IF \E k \in 1..Len(movies) : movies[k] = Null
    THEN [ok |-> FALSE, list |-> <<>>]
    ELSE [ok |-> TRUE,
          list |-> [k \in 1..Len(movies) |->
                       [title |-> Or(Prop(movies[k], "title"), Str("Unknown Title")),
                        year |-> Prop(movies[k], "year"),
                        reason |-> Or(Prop(movies[k], "reason"), Str("Recommended by AI"))]]]

\* The validation of parsedResponse and the value returned.
Validated(parsedResponse) ==
    LET movies == Prop(parsedResponse, "movies")
        mapped == MapMovies(movies.a)
    IN  IF parsedResponse = Null
        THEN Thrown("Cannot read properties of null (reading 'movies')")
        ELSE IF Falsy(movies) \/ movies.t # "arr"
        THEN Thrown("Invalid response format from AI")
        ELSE IF Len(movies.a) = 0
        THEN Thrown("No movie recommendations returned from AI")
        ELSE IF ~mapped.ok
        THEN Thrown("Cannot read properties of null (reading 'title')")
        ELSE [success |-> TRUE,
              explanation |-> Or(Prop(parsedResponse, "explanation"),
                                 Str("AI-generated recommendations")),
              movieTitles |-> mapped.list]

\* generateAIRecommendations(prompt), as a function of what axios.post gave.
generateAIRecommendations(result) ==
    CASE result.kind = "nokey" -> Thrown("GROQ_API_KEY not found in environment variables")
      [] result.kind = "network" -> Thrown("timeout of 30000ms exceeded")
      [] result.kind = "http" -> RequestFailed(result)
      [] result.kind = "ok" ->
            LET parsed == JsonParse(result.aiContent)
                movieTitles == extractMovieTitlesFromText(result.aiContent)
            IN  IF parsed.ok THEN Validated(parsed.v)
                ELSE IF Len(movieTitles) = 0
                THEN Thrown("Could not extract movie titles from AI response")
                ELSE Validated(Obj(
                        [explanation |->
                            Str("AI-generated recommendations based on your request."),
                         movies |-> Arr([k \in 1..Len(movieTitles) |->
                                            Obj([title |-> Str(movieTitles[k]),
                                                 year |-> Null,
                                                 reason |-> Str("Recommended by AI")])])]))

\* What axios.post gives the requests of POST /ai: no key to call with, an
\* outage, a completion with no title in it, or one of two well-formed
\* completions.
GroqResponses ==
    {NoGroqKey, HttpFailure(503, Undefined), Completion("no"),
     Completion("{\"explanation\": \"A dream heist.\", \"movies\": [{\"title\": \"Inception\", "
                \o "\"year\": 2010, \"reason\": \"Layered dreams\"}]}"),
     Completion("{\"explanation\": \"Two picks.\", \"movies\": [{\"title\": \"Solaris Rising\", "
                \o "\"year\": null, \"reason\": \"Slow and strange\"}, {\"title\": \"Inception\", "
                \o "\"year\": 2010, \"reason\": \"Layered dreams\"}]}")}

\* What generateAIRecommendations(prompt) may resolve to: the model's titles, or
\* a failure of the call.
AiOutcomes == {generateAIRecommendations(result) : result \in GroqResponses}

\* The outcomes of the single axios.get of getMovieDetailsForRecommendations.
AxiosGetByTitle(title) ==
    {[ok |-> TRUE, data |-> d] : d \in OmdbByTitle(title)} \cup {[ok |-> FALSE, data |-> Null]}

\* The item pushed for a candidate that was not resolved.
Placeholder(movieData, plot, error) ==
    [title |-> movieData.title, year |-> movieData.year, ai_reason |-> movieData.reason,
     plot |-> Str(plot), poster_url |-> Null, genre |-> Str("Unknown"),
     director |-> Str("Unknown"), actors |-> Str("Unknown"), imdb_rating |-> Null]
    @@ (IF error = "" THEN <<>> ELSE [error |-> Str(error)])

IdleAi ==
    [pc |-> "idle", prompt |-> Null, userId |-> Null, promptHash |-> "",
     movieTitles |-> <<>>, explanation |-> Null, idx |-> 0, detailed |-> <<>>, md |-> Null,
     response |-> Null, cacheErr |-> FALSE, cold |-> FALSE, during |-> {},
     gets |-> 0, resp |-> NoResp]

AiInFlight == {r \in DOMAIN ai : ai[r].pc \notin {"idle", "done"}}

(* router.post('/ai') *)
\* Validation, the hash, and on to the await of the SELECT.
AiStart(r, prompt, userId) ==
    /\ ai[r].pc = "idle"
    /\ ai' = [ai EXCEPT ![r] =
                IF Falsy(prompt)
                THEN Respond([@ EXCEPT !.prompt = prompt],
                             400, [error |-> "Prompt is required"])
                ELSE IF TooLong(prompt)
                THEN Respond([@ EXCEPT !.prompt = prompt], 400,
                             [error |-> "Prompt too long. Please keep it under 500 characters."])
                ELSE [@ EXCEPT !.pc = "a_select", !.prompt = prompt, !.userId = userId,
                               !.promptHash = promptHash(prompt.s),
                               !.cold = ~\E row \in aiCache :
                                            row.prompt_hash = promptHash(prompt.s),
                               !.during = AiInFlight]]
    /\ UNCHANGED <<now, moviesCache, aiCache, history, lastPut, mv, fmt, env, gen, lastUpsert>>

\* A cached branch that sends the body without returning, so that the handler
\* goes on to the INSERT into search_history.
AnswerCachedLogged(q, row) ==
    [q EXCEPT !.pc = "a_history", !.resp = [status |-> 200, body |-> CachedResponse(row)]]

\* The cached branch: return res.json({source: 'cache', ...}).
AnswerCached(q, row) == Respond(q, 200, CachedResponse(row))

\* The SELECT returned or threw: the cached body, on to
\* generateAIRecommendations, or the 500 of the handler's catch.
AiSelect(r) ==
    /\ ai[r].pc = "a_select"
    /\ LET cachedRecommendations == FindRecommendations(aiCache, ai[r].promptHash, now)
       IN  \E dbOk \in DbOutcomes :
               ai' = [ai EXCEPT ![r] =
                        IF ~dbOk
                        THEN Respond(@, 500, [error |-> "Error generating AI recommendations"])
                        ELSE IF cachedRecommendations # {}
                        THEN AnswerCached(@, CHOOSE row \in cachedRecommendations : TRUE)
                        ELSE [@ EXCEPT !.pc = "a_generate"]]
    /\ UNCHANGED <<now, moviesCache, aiCache, history, lastPut, mv, fmt, env, gen, lastUpsert>>

\* The loop of getMovieDetailsForRecommendations at index q.idx: the SELECT for
\* the next candidate, or, the list done, the response object and on to the
\* INSERT into the recommendation cache.
DetailsLoop(q) ==
    IF q.idx <= Len(q.movieTitles)
    THEN [q EXCEPT !.pc = "a_msel"]
    ELSE [q EXCEPT !.pc = "a_insert",
                   !.response = [source |-> "ai", explanation |-> q.explanation,
                                 recommendations |-> q.detailed,
                                 originalPrompt |-> q.prompt]]

\* A push that leaves out an item that carries an error.
PushResolved(q, item) ==
    IF "error" \in DOMAIN item
    THEN DetailsLoop([q EXCEPT !.idx = @ + 1, !.md = Null, !.gets = 0])
    ELSE DetailsLoop([q EXCEPT !.detailed = Append(@, item), !.idx = @ + 1, !.md = Null,
                               !.gets = 0])

Push(q, item) ==
    DetailsLoop([q EXCEPT !.detailed = Append(@, item), !.idx = @ + 1, !.md = Null,
                          !.gets = 0])

\* A failure branch that goes on to store the failure as the response.
GenerateFailedStored(q, aiResponse) ==
    [q EXCEPT !.pc = "a_insert",
              !.response = [error |-> aiResponse.error, details |-> aiResponse.details]]

\* if (!aiResponse.success) return res.status(500).json({error, details}).
GenerateFailed(q, aiResponse) ==
    Respond(q, 500, [error |-> aiResponse.error, details |-> aiResponse.details])

\* generateAIRecommendations returned: 500 on failure, else the loop over the titles.
AiGenerate(r) ==
    /\ ai[r].pc = "a_generate"
    /\ \E aiResponse \in AiOutcomes :
           ai' = [ai EXCEPT ![r] =
                    IF ~aiResponse.success
                    THEN GenerateFailed(@, aiResponse)
                    ELSE DetailsLoop([@ EXCEPT !.movieTitles = aiResponse.movieTitles,
                                               !.explanation = aiResponse.explanation,
                                               !.idx = 1, !.detailed = <<>>])]
    /\ UNCHANGED <<now, moviesCache, aiCache, history, lastPut, mv, fmt, env, gen, lastUpsert>>

\* The SELECT ... WHERE title LIKE ? ORDER BY imdb_rating DESC LIMIT 1 returned
\* or threw: the cached row, the key-less placeholder, on to axios.get, or the
\* placeholder of the catch.
AiMovieSelect(r) ==
    /\ ai[r].pc = "a_msel"
    /\ LET movieData == ai[r].movieTitles[ai[r].idx]
           cachedMovie == FindByTitle(moviesCache, movieData.title.s, 1)
       IN  \E dbOk \in DbOutcomes :
               ai' = [ai EXCEPT ![r] =
                        IF ~dbOk
                        THEN Push(@, Placeholder(movieData, "Error fetching movie details",
                                                 "Fetch failed"))
                        ELSE IF Len(cachedMovie) > 0
                        THEN Push(@, [ai_reason |-> movieData.reason] @@ cachedMovie[1])
                        ELSE IF ~env.omdbKey
                        THEN Push(@, Placeholder(movieData, "Plot information unavailable", ""))
                        ELSE [@ EXCEPT !.pc = "a_get"]]
    /\ UNCHANGED <<now, moviesCache, aiCache, history, lastPut, mv, fmt, env, gen, lastUpsert>>

\* axios.get returned or threw: the record and on to cacheMovie, or a placeholder.
\* gets counts the calls of axios.get for the candidate in hand.
AiMovieGet(r) ==
    /\ ai[r].pc = "a_get"
    /\ LET movieData == ai[r].movieTitles[ai[r].idx]
       IN  \E out \in AxiosGetByTitle(movieData.title.s) :
               ai' = [ai EXCEPT ![r] =
                        IF ~out.ok
                        THEN Push(@, Placeholder(movieData, "Error fetching movie details",
                                                 "Fetch failed"))
                        ELSE IF out.data.Response = Str("True")
                        THEN [@ EXCEPT !.pc = "a_mcache", !.gets = @ + 1,
                                       !.md = [ai_reason |-> movieData.reason]
                                              @@ formatMovieDataRec(out.data)]
                        ELSE Push(@, Placeholder(movieData, "Movie details not available",
                                                 "Details not found"))]
    /\ UNCHANGED <<now, moviesCache, aiCache, history, lastPut, mv, fmt, env, gen, lastUpsert>>

\* await cacheMovie(movieDetails), its failure caught inside, then the push.
AiMovieCache(r) ==
    /\ ai[r].pc = "a_mcache"
    /\ \E dbOk \in DbOutcomes :
           moviesCache' = IF dbOk THEN cacheMovie(moviesCache, ai[r].md, now) ELSE moviesCache
    /\ ai' = [ai EXCEPT ![r] = Push(@, ai[r].md)]
    /\ UNCHANGED <<now, aiCache, history, lastPut, mv, fmt, env, gen, lastUpsert>>

\* The INSERT into ai_recommendations_cache returned or threw (caught, logged);
\* a request without userId sends its response right after.
AiCacheInsert(r) ==
    /\ ai[r].pc = "a_insert"
    /\ \E dbOk \in DbOutcomes :
       LET ins == IF dbOk
                  THEN InsertRecommendations(aiCache, ai[r].promptHash, ai[r].prompt,
                                             StoredJson(ai[r].response), now)
                  ELSE [ok |-> FALSE, cache |-> aiCache]
       IN  /\ aiCache' = ins.cache
           /\ ai' = [ai EXCEPT ![r] =
                        IF Falsy(ai[r].userId)
                        THEN Respond([@ EXCEPT !.cacheErr = ~ins.ok], 200, ai[r].response)
                        ELSE [@ EXCEPT !.cacheErr = ~ins.ok, !.pc = "a_history"]]
    /\ lastPut' = [lastPut EXCEPT ![ai[r].promptHash] =
                      [by |-> r, response |-> ai[r].response, at |-> now]]
    /\ UNCHANGED <<now, moviesCache, history, mv, fmt, env, gen, lastUpsert>>

\* The INSERT into search_history returned or threw (caught, logged), then
\* res.json(response).
AiHistory(r) ==
    /\ ai[r].pc = "a_history"
    /\ \E dbOk \in DbOutcomes :
           history' = IF dbOk
                      THEN Append(history, [user_id |-> ai[r].userId,
                                            search_query |-> ai[r].prompt,
                                            search_type |-> "ai_prompt"])
                      ELSE history
    /\ ai' = [ai EXCEPT ![r] = Respond(@, 200, ai[r].response)]
    /\ UNCHANGED <<now, moviesCache, aiCache, lastPut, mv, fmt, env, gen, lastUpsert>>

AiRequests == {"a1", "a2"}

Prompts == {Undefined, Str("dark thriller"), Str(" Dark Thriller "), Str("space")}

\* Prompts at the edges of the validation.
EdgePrompts ==
    {Undefined, Str(""), Str("dark thriller"),
     Str(Filler(MaxPromptLength)), Str(Filler(MaxPromptLength + 1))}

UserIds == {Undefined, IntNum(7)}

AiHashes == {promptHash(p.s) : p \in {q \in Prompts \cup EdgePrompts : q.t = "str"}}

NoPut == [at |-> -1]

InitAI ==
    /\ now = 0
    /\ moviesCache = {}
    /\ aiCache = {}
    /\ history = <<>>
    /\ ai = [r \in AiRequests |-> IdleAi]
    /\ lastPut = [h \in AiHashes |-> NoPut]
    /\ mv = <<>>
    /\ fmt = <<>>
    /\ env \in {[omdbKey |-> key, dbFlaky |-> FALSE] : key \in BOOLEAN}
    /\ gen = <<>>
    /\ lastUpsert = <<>>

\* The steps of request r, its prompt drawn from prompts.
AiStep(r, prompts) ==
    \/ \E prompt \in prompts, userId \in UserIds : AiStart(r, prompt, userId)
    \/ AiSelect(r)
    \/ AiGenerate(r)
    \/ AiMovieSelect(r)
    \/ AiMovieGet(r)
    \/ AiMovieCache(r)
    \/ AiCacheInsert(r)
    \/ AiHistory(r)

NextAI ==
    \/ Tick
    \/ \E r \in AiRequests : AiStep(r, Prompts)

SpecAI == InitAI /\ [][NextAI]_vars

(***************************************************************************)
(* One POST /ai against a database whose statements may throw, under       *)
(* SpecFlaky.  The movie store is empty or holds the record of an earlier  *)
(* request.                                                                *)
(***************************************************************************)
FlakyRequests == {"a1"}

InitFlaky ==
    /\ now = 0
    /\ moviesCache \in {{}, cacheMovie({}, formatMovieDataRec(Inception), 0),
                        cacheMovie(cacheMovie({}, formatMovieDataRec(InceptionCobol), 0),
                                   formatMovieDataRec(Inception), 0)}
    /\ aiCache = {}
    /\ history = <<>>
    /\ ai = [r \in FlakyRequests |-> IdleAi]
    /\ lastPut = [h \in AiHashes |-> NoPut]
    /\ mv = <<>>
    /\ fmt = <<>>
    /\ env \in {[omdbKey |-> key, dbFlaky |-> TRUE] : key \in BOOLEAN}
    /\ gen = <<>>
    /\ lastUpsert = <<>>

NextFlaky ==
    \/ Tick
    \/ \E r \in FlakyRequests : AiStep(r, EdgePrompts)

SpecFlaky == InitFlaky /\ [][NextFlaky]_vars

(***************************************************************************)
(* Claims about the recommendation cache.                                  *)
(***************************************************************************)
\* The rows stored under a hash, live or expired.
RowsFor(hash) == {row \in aiCache : row.prompt_hash = hash}

\* Requests a and b ran at the same time: one started while the other was in flight.
ConcurrentAi(a, b) == a # b /\ (a \in ai[b].during \/ b \in ai[a].during)

\* Request r has ended and the language model did not fail it.
Answered(r) == ai[r].pc = "done" /\ ai[r].promptHash # "" /\ ai[r].resp.status # 500

\* C1: two concurrent POST /ai requests for the same prompt, both started while
\* the cache has no entry for the prompt's hash, both complete successfully; the
\* cache then holds exactly one entry for the hash, live from the last write,
\* carrying the response of the last write, and no insert failed on a duplicate key.
C1_ConcurrentColdPuts ==
    \A a, b \in AiRequests :
        (/\ ConcurrentAi(a, b)
         /\ ai[a].promptHash = ai[b].promptHash
         /\ ai[a].cold /\ ai[b].cold
         /\ Answered(a) /\ Answered(b))
        => LET hash == ai[a].promptHash
           IN  /\ ai[a].resp.status = 200 /\ ai[b].resp.status = 200
               /\ Cardinality(RowsFor(hash)) = 1
               /\ ~ai[a].cacheErr /\ ~ai[b].cacheErr
               /\ lastPut[hash] # NoPut
                  => \A row \in RowsFor(hash) :
                         /\ row.recommendations = lastPut[hash].response
                         /\ row.expires_at = lastPut[hash].at + TtlHours

\* C2: put always inserts or overwrites.  When a request has produced a fresh
\* response and its write to the cache is over, the cache holds an entry for
\* the prompt's hash with that response and expiresAt = time of the write + 24h,
\* whatever the cache held before, an expired entry for the hash included.
C2_PutInsertsOrOverwrites ==
    [][\A r \in AiRequests :
          (ai[r].pc = "a_insert" /\ ai'[r].pc # "a_insert")
          => \E row \in aiCache' :
                 /\ row.prompt_hash = ai[r].promptHash
                 /\ row.recommendations = ai[r].response
                 /\ row.expires_at = now + TtlHours
                 /\ row.expires_at > now]_vars

\* C3: a lookup never returns an entry whose expiresAt is not strictly in the
\* future.  When the SELECT of a request returns, the request goes on to the
\* language model unless some row of its hash expires strictly after now, and
\* a cached answer is the content of such a row.
C3_ExpiredNeverServed ==
    [][\A r \in AiRequests :
          (ai[r].pc = "a_select" /\ ai'[r].pc # "a_select")
          => LET fresh == {row \in RowsFor(ai[r].promptHash) : row.expires_at > now}
             IN  IF fresh = {}
                 THEN ai'[r].pc = "a_generate"
                 ELSE /\ ai'[r].pc = "done"
                      /\ ai'[r].resp.body.source = "cache"
                      /\ \E row \in fresh :
                             ai'[r].resp.body.recommendations
                                 = row.recommendations.recommendations]_vars

\* A request is at the language model while an expired row of its hash is stored.
C3_Witness ==
    \E r \in AiRequests :
        /\ ai[r].pc = "a_generate"
        /\ \E row \in RowsFor(ai[r].promptHash) : row.expires_at <= now

\* The texts a prompt may have.
PromptTexts ==
    {"dark thriller", " Dark Thriller ", "DARK THRILLER", "  dark thriller", "Dark  Thriller",
     "space", " SPACE", ""}

\* Lower-cased and trimmed, in the order the specification names them.
Folded(text) == ToLowerCase(Trim(text))

\* Texts with the same folding have the same hash.
FoldedTextsShareHash ==
    \A p1, p2 \in PromptTexts : Folded(p1) = Folded(p2) => promptHash(p1) = promptHash(p2)

\* C4: prompts that are equal after lower-casing and trimming have the same
\* promptHash, and an entry cached by a request with one of them is served as a
\* cache hit to a later request with the other while the entry is live.
C4_FoldedPromptsShareEntry ==
    [][/\ FoldedTextsShareHash
       /\ \A r \in AiRequests :
              (ai[r].pc = "a_select" /\ ai'[r].pc # "a_select")
              => \A row \in aiCache :
                     (Folded(row.user_prompt.s) = Folded(ai[r].prompt.s) /\ row.expires_at > now)
                     => /\ ai'[r].pc = "done"
                        /\ ai'[r].resp.status = 200
                        /\ ai'[r].resp.body.source = "cache"
                        /\ ai'[r].resp.body.recommendations
                               = row.recommendations.recommendations]_vars

\* A request was answered from an entry cached under another text of the prompt.
C4_Witness ==
    \E r \in AiRequests :
        /\ ai[r].pc = "done"
        /\ ai[r].resp.status = 200
        /\ ai[r].resp.body.source = "cache"
        /\ ai[r].resp.body.originalPrompt # ai[r].prompt
        /\ Folded(ai[r].resp.body.originalPrompt.s) = Folded(ai[r].prompt.s)

\* C12: POST /ai rejects a prompt that is empty or longer than 500 characters
\* with an invalid-input error (400) before any cache read, language-model call
\* or write, and accepts every non-empty prompt of at most 500 characters, one
\* of exactly 500 included.
C12_PromptValidation ==
    [][\A r \in DOMAIN ai :
          (ai[r].pc = "idle" /\ ai'[r].pc # "idle")
          => LET prompt == ai'[r].prompt
                 invalid == \/ prompt.t # "str"
                            \/ Len(prompt.s) = 0
                            \/ Len(prompt.s) > 500
             IN  IF invalid
                 THEN /\ ai'[r].pc = "done"
                      /\ ai'[r].resp.status = 400
                      /\ ai'[r].promptHash = "" /\ ai'[r].response = Null
                      /\ UNCHANGED <<aiCache, moviesCache, history, lastPut>>
                 ELSE ai'[r].pc = "a_select"]_vars

\* A prompt of exactly 500 characters was accepted and answered.
C12_Witness ==
    \E r \in DOMAIN ai :
        ai[r].pc = "done" /\ ai[r].resp.status = 200 /\ Len(ai[r].prompt.s) = 500

(***************************************************************************)
(* generateAIRecommendations on its own, under SpecGenerate: the call to   *)
(* the language model returns one of the results below.                    *)
(***************************************************************************)
MaxMovies == 6

CandidateTitles == {"Inception", "Heat"}

MovieJson(title) == "{\"title\": \"" \o title \o "\", \"year\": 2010, \"reason\": \"fits\"}"

RECURSIVE JoinJson(_)
JoinJson(list) ==
    IF Len(list) = 0 THEN ""
    ELSE IF Len(list) = 1 THEN MovieJson(list[1])
    ELSE MovieJson(list[1]) \o ", " \o JoinJson(Tail(list))

TitleLists == UNION {[1..n -> CandidateTitles] : n \in 0..MaxMovies}

\* Valid JSON: the list of movies under the key asked for, or under another key.
JsonTexts ==
    {"{\"explanation\": \"picks\", \"" \o key \o "\": [" \o JoinJson(list) \o "]}" :
        key \in {"movies", "films"}, list \in TitleLists}

\* Text that is not valid JSON, and JSON values that are not objects.
PlainTexts ==
    {"", "no", "null", "[]", "\"Inception\"",
     "1. Inception (2010)\n2. Heat (1995)\n3. Alien",
     "Here are my picks: \"Inception\", \"Heat\" and \"Inception\".",
     "Inception\nHeat\nInception",
     "* Alien\n* Heat\n* Seven\n* Jaws\n* Rocky\n* Fargo",
     "Title: Alien\r\nMovie: Heat",
     "- Up\n- Heat",
     "Up\nHeat\nHeat",
     "Try The Matrix (1999) tonight",
     "{\"movies\": [{\"title\": \"Inception\"},]}"}

HttpStatuses == {400, 401, 403, 429, 500, 502, 503, 504}

GenResults ==
    {NoGroqKey, NetworkFailure}
    \cup {HttpFailure(status, message) :
            status \in HttpStatuses, message \in {Undefined, Str("model overloaded")}}
    \cup {Completion(text) : text \in JsonTexts \cup PlainTexts}

GenIdle == [pc |-> "idle"]

\* axios.post is sent and settles with result.
GenCall(result) ==
    /\ gen.pc = "idle"
    /\ gen' = [pc |-> "called", result |-> result]
    /\ UNCHANGED <<now, moviesCache, aiCache, history, ai, lastPut, mv, fmt, env, lastUpsert>>

\* generateAIRecommendations returns.
GenReturn ==
    /\ gen.pc = "called"
    /\ gen' = [gen EXCEPT !.pc = "returned"]
                @@ [aiResponse |-> generateAIRecommendations(gen.result)]
    /\ UNCHANGED <<now, moviesCache, aiCache, history, ai, lastPut, mv, fmt, env, lastUpsert>>

InitGenerate ==
    /\ now = 0
    /\ moviesCache = {}
    /\ aiCache = {}
    /\ history = <<>>
    /\ ai = <<>>
    /\ lastPut = <<>>
    /\ mv = <<>>
    /\ fmt = <<>>
    /\ env = [omdbKey |-> TRUE, dbFlaky |-> FALSE]
    /\ lastUpsert = <<>>
    /\ gen = GenIdle

NextGenerate ==
    \/ \E result \in GenResults : GenCall(result)
    \/ GenReturn

SpecGenerate == InitGenerate /\ [][NextGenerate]_vars

\* The call returned for a completion of the language model.
Completed == gen.pc = "returned" /\ gen.result.kind = "ok"

\* C13: generateAIRecommendations fails as a malformed response only if strict
\* parsing and fallback extraction both yield no candidate.  Whenever the text
\* of the completion holds an extractable title the call succeeds, valid JSON
\* without a non-empty movies array included.
C13_MalformedOnlyIfNoCandidate ==
    (Completed /\ Len(extractMovieTitlesFromText(gen.result.aiContent)) > 0)
        => gen.aiResponse.success

\* C14: for every response of the language model, parsed strictly or by the
\* fallback, the list of candidates handed to reconciliation has at most 5
\* entries and no two entries with the same title.
C14_AtMostFiveDistinct ==
    (Completed /\ gen.aiResponse.success) =>
        LET movieTitles == gen.aiResponse.movieTitles
        IN  /\ Len(movieTitles) <= 5
            /\ \A j, k \in 1..Len(movieTitles) :
                   j # k => movieTitles[j].title # movieTitles[k].title

\* The call returned for a completion that JSON.parse rejects, so that the
\* titles come from extractMovieTitlesFromText.
NonJson == Completed /\ ~JsonParse(gen.result.aiContent).ok

\* No more than five titles, each of 3 to 99 characters.
FewAndSized(titles) ==
    /\ Len(titles) <= 5
    /\ \A k \in 1..Len(titles) : Len(titles[k]) > 2 /\ Len(titles[k]) < 100

PairwiseDistinct(titles) == \A j, k \in 1..Len(titles) : j # k => titles[j] # titles[k]

\* C27: for every text that is not JSON, extractMovieTitlesFromText returns at
\* most 5 strings, pairwise distinct, each of 3 to 99 characters, whether they
\* come from the chain of patterns or from the line-by-line fallback.
C27_ExtractedTitles ==
    NonJson =>
        /\ FewAndSized(extractMovieTitlesFromText(gen.result.aiContent))
        /\ PairwiseDistinct(extractMovieTitlesFromText(gen.result.aiContent))

\* The count and the sizes hold on both paths; the titles are pairwise distinct
\* when a pattern of the chain matched.
ExtractedByChainDistinct ==
    NonJson =>
        /\ FewAndSized(extractMovieTitlesFromText(gen.result.aiContent))
        /\ Len(PatternChain(gen.result.aiContent, 1, <<>>)) > 0
              => PairwiseDistinct(extractMovieTitlesFromText(gen.result.aiContent))

\* The call returned for a request the provider answered with an HTTP error.
HttpFailed == gen.pc = "returned" /\ gen.result.kind = "http"

\* The four kinds of failure the switch of the catch block names.
BadRequest == Str("Invalid request format or parameters")
AuthFailure == Str("Authentication failed")
RateLimited == Str("Rate limit exceeded")
ProviderUnavailable == Str("AI service unavailable")

\* C26: for every HTTP failure status of the language-model provider,
\* generateAIRecommendations reports the kind of the failure by the status:
\* 400 a bad request, 401 an authentication failure, 429 rate limited, and
\* every status from 500 to 599 provider unavailable; the four kinds are
\* pairwise distinct.
C26_KindByStatus ==
    /\ Cardinality({BadRequest, AuthFailure, RateLimited, ProviderUnavailable}) = 4
    /\ HttpFailed =>
          /\ ~gen.aiResponse.success
          /\ gen.result.status = 400 => gen.aiResponse.error = BadRequest
          /\ gen.result.status = 401 => gen.aiResponse.error = AuthFailure
          /\ gen.result.status = 429 => gen.aiResponse.error = RateLimited
          /\ gen.result.status \in 500..599 => gen.aiResponse.error = ProviderUnavailable

\* The statuses the switch lists are reported by kind; any other status, 504
\* included, is reported with the generic message.
ListedStatusesByKind ==
    HttpFailed =>
        /\ ~gen.aiResponse.success
        /\ gen.result.status = 400 => gen.aiResponse.error = BadRequest
        /\ gen.result.status = 401 => gen.aiResponse.error = AuthFailure
        /\ gen.result.status = 429 => gen.aiResponse.error = RateLimited
        /\ gen.result.status \in {500, 502, 503} => gen.aiResponse.error = ProviderUnavailable
        /\ gen.result.status \notin {400, 401, 429, 500, 502, 503} =>
              gen.aiResponse.error = Str("Error generating AI recommendations")

\* getMovieDetailsForRecommendations of request r has returned.
Reconciled(r) == ai[r].pc \in {"a_insert", "a_history", "done"} /\ ai[r].response # Null

\* C15: reconciliation is isolated per candidate and order-preserving.  For
\* every candidate list and every outcome of each candidate (cache hit,
\* provider success, not found, key absent, provider or database error) the
\* loop pushes exactly one item per candidate handled, and the list returned
\* has one item per candidate, in the model's order, each with the candidate's
\* rationale; the request is then answered 200 with that list.
C15_OneItemPerCandidate ==
    \A r \in DOMAIN ai :
        /\ ai[r].pc \in {"a_msel", "a_get", "a_mcache"}
              => Len(ai[r].detailed) = ai[r].idx - 1
        /\ Reconciled(r) =>
              /\ Len(ai[r].detailed) = Len(ai[r].movieTitles)
              /\ \A k \in 1..Len(ai[r].movieTitles) :
                     /\ ai[r].detailed[k].ai_reason = ai[r].movieTitles[k].reason
                     /\ Like(ai[r].detailed[k].title.s, ai[r].movieTitles[k].title.s)
              /\ ai[r].response.recommendations = ai[r].detailed
              /\ ai[r].pc = "done" => /\ ai[r].resp.status = 200
                                      /\ ai[r].resp.body = ai[r].response

\* A request ended with a placeholder for its first candidate, after a failure,
\* and the stored or fetched record for its second.
C15_Witness ==
    \E r \in DOMAIN ai :
        /\ ai[r].pc = "done" /\ Reconciled(r)
        /\ Len(ai[r].detailed) = 2
        /\ "error" \in DOMAIN ai[r].detailed[1]
        /\ ai[r].detailed[1].error = Str("Fetch failed")
        /\ "imdb_id" \in DOMAIN ai[r].detailed[2]

\* The payloads the provider sends with Response "True".
ProviderRecords ==
    {Inception, InceptionRerated, InceptionCobol, Baraka, Human, TheDarkKnight, TheMatrix,
     FightClub}

\* The plot texts of the placeholders.
PlaceholderPlots ==
    {Str("Plot information unavailable"), Str("Movie details not available"),
     Str("Error fetching movie details")}

\* C16: every record of the movie store carries an externalId obtained from a
\* successful provider response, with the title and plot of that response; a
\* placeholder made for an unresolved candidate is returned to the caller and
\* never written to the store.
C16_StoreHoldsProviderRecords ==
    \A row \in moviesCache :
        /\ \E omdbData \in ProviderRecords :
               /\ omdbData.Response = Str("True")
               /\ row.imdb_id = omdbData.imdbID
               /\ row.title = omdbData.Title
               /\ row.plot = omdbData.Plot
        /\ row.plot \notin PlaceholderPlots

\* A request returned a placeholder for one candidate and stored the record of
\* another.
C16_Witness ==
    \E r \in DOMAIN ai :
        /\ ai[r].pc = "done" /\ Reconciled(r)
        /\ \E k \in 1..Len(ai[r].detailed) :
               /\ "imdb_id" \notin DOMAIN ai[r].detailed[k]
               /\ ai[r].detailed[k].plot \in PlaceholderPlots
        /\ \E k \in 1..Len(ai[r].detailed) :
               /\ "imdb_id" \in DOMAIN ai[r].detailed[k]
               /\ FindById(moviesCache, ai[r].detailed[k].imdb_id) # {}

\* The item at k of request r is a placeholder: it was not read from the store
\* and not returned by the provider.
IsPlaceholder(item) == "imdb_id" \notin DOMAIN item

\* The placeholder of candidate c: its title and year, the sentinels, a marker.
WellFormedPlaceholder(item, c) ==
    /\ item.title = c.title /\ item.year = c.year
    /\ item.plot \in PlaceholderPlots
    /\ item.genre = Str("Unknown") /\ item.director = Str("Unknown")
    /\ item.actors = Str("Unknown") /\ item.imdb_rating = Null
    /\ DOMAIN item \subseteq {"title", "year", "ai_reason", "plot", "poster_url", "genre",
                               "director", "actors", "imdb_rating", "error"}

\* C22: every placeholder item that reconciliation returns carries the title
\* and year of its candidate and the sentinels for plot, genre, director,
\* actors and rating, and is tagged with an error marker, whichever of the
\* three cases produced it.
C22_PlaceholdersTagged ==
    \A r \in DOMAIN ai :
        \A k \in 1..Len(ai[r].detailed) :
            IsPlaceholder(ai[r].detailed[k]) =>
                /\ WellFormedPlaceholder(ai[r].detailed[k], ai[r].movieTitles[k])
                /\ "error" \in DOMAIN ai[r].detailed[k]

\* The same with a provider key configured.
PlaceholdersTaggedWithKey ==
    env.omdbKey =>
        \A r \in DOMAIN ai :
            \A k \in 1..Len(ai[r].detailed) :
                IsPlaceholder(ai[r].detailed[k]) =>
                    /\ WellFormedPlaceholder(ai[r].detailed[k], ai[r].movieTitles[k])
                    /\ "error" \in DOMAIN ai[r].detailed[k]

\* The fields other than the marker, in every case.
PlaceholdersWellFormed ==
    \A r \in DOMAIN ai :
        \A k \in 1..Len(ai[r].detailed) :
            IsPlaceholder(ai[r].detailed[k]) =>
                WellFormedPlaceholder(ai[r].detailed[k], ai[r].movieTitles[k])

\* The rows of the store whose title contains the title of the candidate.
StoredMatches(c) == {row \in moviesCache : Like(row.title.s, c.title.s)}

\* item is row with the rationale of candidate c added.
FromRow(item, row, c) ==
    /\ "ai_reason" \in DOMAIN item /\ item.ai_reason = c.reason
    /\ DOMAIN item = DOMAIN row \cup {"ai_reason"}
    /\ \A f \in DOMAIN row : item[f] = row[f]

\* C23: reconciliation is cache-first.  The step that handles the store's
\* answer for a candidate goes on to the provider only when no stored title
\* contains the candidate's title; with a match it pushes the match of the
\* highest rating (a null rating last) with the candidate's rationale and makes
\* no provider request; and the provider request of a candidate is reached
\* from that step alone.
C23_CacheFirst ==
    [][\A r \in DOMAIN ai :
         /\ (ai'[r].pc = "a_get" /\ ai[r].pc # "a_get") =>
                /\ ai[r].pc = "a_msel"
                /\ StoredMatches(ai[r].movieTitles[ai[r].idx]) = {}
         /\ (ai[r].pc = "a_msel" /\ ai'[r] # ai[r]
               /\ StoredMatches(ai[r].movieTitles[ai[r].idx]) # {}) =>
                LET c == ai[r].movieTitles[ai[r].idx]
                    item == ai'[r].detailed[ai[r].idx]
                IN  /\ ai'[r].pc # "a_get"
                    /\ Len(ai'[r].detailed) = ai[r].idx
                    /\ \/ \E row \in StoredMatches(c) :
                              /\ FromRow(item, row, c)
                              /\ \A other \in StoredMatches(c) :
                                     \/ other.imdb_rating = Null
                                     \/ /\ row.imdb_rating # Null
                                        /\ Tenths(row.imdb_rating) >= Tenths(other.imdb_rating)
                       \/ /\ env.dbFlaky
                          /\ IsPlaceholder(item)
                          /\ item.error = Str("Fetch failed")]_vars

\* A request took the higher rated of two stored matches for its candidate.
C23_Witness ==
    \E r \in DOMAIN ai :
        /\ ai[r].pc = "done" /\ Reconciled(r)
        /\ \E k \in 1..Len(ai[r].detailed) :
               /\ Cardinality(StoredMatches(ai[r].movieTitles[k])) >= 2
               /\ ~IsPlaceholder(ai[r].detailed[k])
               /\ ai[r].detailed[k].imdb_id = Inception.imdbID

\* C24: the provider request of a candidate is retried after a transport
\* failure, and the candidate becomes a placeholder only when the third attempt
\* has failed; a record the provider returned is first written to the store
\* and then added to the result.
C24_RetryBeforePlaceholder ==
    [][\A r \in DOMAIN ai :
         (ai[r].pc = "a_get" /\ ai'[r] # ai[r]) =>
            /\ (/\ Len(ai'[r].detailed) = ai[r].idx
                /\ IsPlaceholder(ai'[r].detailed[ai[r].idx])
                /\ ai'[r].detailed[ai[r].idx].error = Str("Fetch failed"))
                   => ai[r].gets = Retries - 1
            /\ ai'[r].pc = "a_mcache" => Len(ai'[r].detailed) = ai[r].idx - 1]_vars

\* A record the provider returned is written to the store before it is pushed.
UpsertBeforePush ==
    [][\A r \in DOMAIN ai :
         /\ (ai[r].pc = "a_get" /\ ai'[r].pc = "a_mcache") =>
                Len(ai'[r].detailed) = ai[r].idx - 1
         /\ (ai[r].pc = "a_mcache" /\ ai'[r] # ai[r]) =>
                /\ ai'[r].detailed[ai[r].idx] = ai[r].md
                /\ moviesCache' \in {moviesCache, cacheMovie(moviesCache, ai[r].md, now)}
                /\ ~env.dbFlaky => moviesCache' = cacheMovie(moviesCache, ai[r].md, now)]_vars

\* C21: a request answered from the recommendation cache returns the
\* explanation and the ordered items of the response that was stored for its
\* prompt.
C21_CacheRoundTrip ==
    \A r \in DOMAIN ai :
        (ai[r].pc = "done" /\ ai[r].resp.status = 200 /\ ai[r].resp.body.source = "cache") =>
            \A row \in RowsFor(ai[r].promptHash) :
                /\ ai[r].resp.body.recommendations = row.recommendations.recommendations
                /\ "explanation" \in DOMAIN ai[r].resp.body
                /\ ai[r].resp.body.explanation = row.recommendations.explanation

\* The items alone come back as they were stored.
CachedItemsReturned ==
    \A r \in DOMAIN ai :
        (ai[r].pc = "done" /\ ai[r].resp.status = 200 /\ ai[r].resp.body.source = "cache") =>
            \A row \in RowsFor(ai[r].promptHash) :
                ai[r].resp.body.recommendations = row.recommendations.recommendations

\* The request was answered by the cached branch.
FromCache(q) == q.resp # NoResp /\ q.resp.status = 200 /\ q.resp.body.source = "cache"

\* C28: a POST /ai answered from the cache has no side effects: no call of the
\* language model, no request to the metadata provider, and the movie store,
\* the recommendation cache (the expiry of its rows included) and the search
\* history are left as they were, a userId in the request or not.
C28_CachedNoSideEffects ==
    /\ [][\A r \in DOMAIN ai :
            /\ (FromCache(ai'[r]) /\ ~FromCache(ai[r])) =>
                  /\ ai[r].pc = "a_select"
                  /\ moviesCache' = moviesCache
                  /\ aiCache' = aiCache
                  /\ history' = history
            /\ FromCache(ai[r]) => ai'[r] = ai[r]]_vars
    /\ [](\A r \in DOMAIN ai :
             FromCache(ai[r]) =>
                /\ ai[r].pc = "done"
                /\ ai[r].explanation = Null
                /\ ai[r].movieTitles = <<>>
                /\ ai[r].gets = 0
                /\ ai[r].response = Null)

\* A request that carries a userId was answered from the cache, and the search
\* history has no entry.
C28_Witness ==
    \E r \in DOMAIN ai :
        /\ FromCache(ai[r])
        /\ ~Falsy(ai[r].userId)
        /\ history = <<>>
        /\ aiCache # {}

\* The request was answered 500 because generateAIRecommendations failed.
GenerationFailed(q) ==
    q.resp # NoResp /\ q.resp.status = 500 /\ "details" \in DOMAIN q.resp.body

\* C29: when the call of the language model fails (an error of the provider, a
\* missing key, a malformed completion) POST /ai answers with an error and
\* leaves the recommendation cache, the movie store and the search history as
\* they were; the failure is never cached, and a later request with the same
\* prompt, finding no row, calls the language model again.
C29_FailureNotCached ==
    /\ [][\A r \in DOMAIN ai :
            /\ (ai[r].pc = "a_generate" /\ ai'[r] # ai[r] /\ ai'[r].explanation = Null) =>
                  /\ GenerationFailed(ai'[r])
                  /\ ai'[r].pc = "done"
                  /\ moviesCache' = moviesCache
                  /\ aiCache' = aiCache
                  /\ history' = history
            /\ GenerationFailed(ai[r]) => ai'[r] = ai[r]
            /\ (/\ ai[r].pc = "a_select"
                /\ ai'[r] # ai[r]
                /\ FindRecommendations(aiCache, ai[r].promptHash, now) = {}) =>
                  ai'[r].pc = "a_generate"]_vars
    /\ [](\A r \in DOMAIN ai :
             GenerationFailed(ai[r]) =>
                /\ ai[r].pc = "done"
                /\ ai[r].response = Null
                /\ \A h \in DOMAIN lastPut : lastPut[h] = NoPut \/ lastPut[h].by # r)

\* A request failed on a malformed completion, and a request with the
\* same prompt that started afterwards is at the call of the language model.
C29_Witness ==
    \E r1, r2 \in DOMAIN ai :
        /\ GenerationFailed(ai[r1])
        /\ ai[r1].resp.body.details = Str("Could not extract movie titles from AI response")
        /\ ai[r2].pc = "a_generate"
        /\ ai[r2].promptHash = ai[r1].promptHash
        /\ r1 \notin ai[r2].during
        /\ aiCache = {}
        /\ history = <<>>

\* ---------------------------------------------------------------------------
\* GET /trending (movies.js)
\* ---------------------------------------------------------------------------

popularTitles ==
    <<"The Dark Knight", "Inception", "Pulp Fiction", "The Shawshank Redemption",
      "Forrest Gump", "The Matrix", "Goodfellas", "The Godfather",
      "Interstellar", "Fight Club">>

\* imdb_rating >= 7.0 and imdb_rating >= 6.0, in tenths; LIMIT 20; length >= 10.
TrendingRating == 70

FallbackRating == 60

TrendingLimit == 20

MinCached == 10

\* ORDER BY imdb_rating DESC, created_at DESC: a comes no later than b.
NoLater(a, b) ==
    \/ Tenths(a.imdb_rating) > Tenths(b.imdb_rating)
    \/ Tenths(a.imdb_rating) = Tenths(b.imdb_rating) /\ a.created_at.n >= b.created_at.n

\* Rows equal in rating and created_at come in an order the statement does not fix.
RECURSIVE OrderByRatingRecency(_)
OrderByRatingRecency(rows) ==
    IF rows = {} THEN <<>>
    ELSE LET top == CHOOSE a \in rows : \A b \in rows : NoLater(a, b)
         IN  <<top>> \o OrderByRatingRecency(rows \ {top})

\* SELECT * FROM movies_cache WHERE imdb_rating >= ? ORDER BY imdb_rating DESC,
\* created_at DESC LIMIT n; a NULL rating satisfies no comparison.
FindTrending(store, minTenths, n) ==
    Limit(OrderByRatingRecency({row \in store : /\ row.imdb_rating.t = "num"
                                                /\ Tenths(row.imdb_rating) >= minTenths}), n)

\* trendingMovies.length >= 1
AnyCached(trendingMovies) == Len(trendingMovies) >= 1

\* trendingMovies.length >= 10
EnoughCached(trendingMovies) == Len(trendingMovies) >= MinCached

\* The two SELECTs of the handler.
TrendingRows(store) == FindTrending(store, TrendingRating, TrendingLimit)

FallbackRows(store) == FindTrending(store, FallbackRating, TrendingLimit)

\* The loop without the fallback SELECT: the list done, the response.
TrendingLoopPlain(q) ==
    IF q.idx <= Len(popularTitles)
    THEN CallFetchOmdb(q, "t", popularTitles[q.idx], "t_item")
    ELSE Respond(q, 200, [source |-> "omdb", movies |-> q.movies])

\* The loop over popularTitles at index q.idx: fetchOmdb for the next title, or,
\* the list done, the fallback SELECT when nothing was pushed, else the response.
TrendingLoop(q) ==
    IF q.idx <= Len(popularTitles)
    THEN CallFetchOmdb(q, "t", popularTitles[q.idx], "t_item")
    ELSE IF Len(q.movies) = 0
    THEN [q EXCEPT !.pc = "t_fallback"]
    ELSE Respond(q, 200, [source |-> "omdb", movies |-> q.movies])

\* A title that ends the request with an error.
AbortTitle(q) == Respond(q, 500, [error |-> "Error fetching trending movies"])

\* A title that was not resolved: nothing is pushed, the loop goes on.
SkipTitle(q) == TrendingLoop([q EXCEPT !.answers = Append(@, FALSE), !.idx = @ + 1])

\* The handler up to its first await.
TrendingStart(r, force, source) ==
    /\ mv[r].pc = "idle"
    /\ LET forceOmdb == force = Str("1") \/ force = Str("true") \/ source = Str("omdb")
       IN  mv' = [mv EXCEPT ![r] =
                    IF ~forceOmdb
                    THEN [@ EXCEPT !.pc = "t_select", !.kind = "trending",
                                   !.arg = Bool(forceOmdb)]
                    ELSE TrendingLoop([@ EXCEPT !.kind = "trending", !.arg = Bool(forceOmdb),
                                                !.idx = 1])]
    /\ UNCHANGED <<now, moviesCache, aiCache, history, ai, lastPut, fmt, env, gen, lastUpsert>>

\* The first SELECT returned or threw: the cached rows, the 500 of the outer
\* catch, or on to the titles.
TrendingSelect(r) ==
    /\ mv[r].pc = "t_select"
    /\ LET trendingMovies == TrendingRows(moviesCache)
       IN  \E dbOk \in DbOutcomes :
             mv' = [mv EXCEPT ![r] =
                      IF ~dbOk
                      THEN Respond(@, 500, [error |-> "Error fetching trending movies"])
                      ELSE IF EnoughCached(trendingMovies)
                      THEN Respond(@, 200, [source |-> "cache", movies |-> trendingMovies])
                      ELSE TrendingLoop([@ EXCEPT !.idx = 1])]
    /\ UNCHANGED <<now, moviesCache, aiCache, history, ai, lastPut, fmt, env, gen, lastUpsert>>

\* fetchOmdb returned or threw for the title at q.idx.  A record is pushed and
\* its cacheMovie started without await; anything else is skipped.  answers
\* notes, title by title, whether the provider resolved it.
TrendingItem(r) ==
    /\ mv[r].pc = "t_item"
    /\ LET searchData == mv[r].fres
           resolved == searchData.kind = "data" /\ searchData.data.Response = Str("True")
       IN  mv' = [mv EXCEPT ![r] =
                    IF resolved
                    THEN LET movie == formatMovieData(searchData.data)
                         IN  TrendingLoop([@ EXCEPT !.movies = Append(@, movie),
                                                    !.writes = Append(@, movie),
                                                    !.answers = Append(@, TRUE),
                                                    !.idx = @ + 1])
                    ELSE SkipTitle(@)]
    /\ UNCHANGED <<now, moviesCache, aiCache, history, ai, lastPut, fmt, env, gen, lastUpsert>>

\* The fallback SELECT returned or threw.
TrendingFallback(r) ==
    /\ mv[r].pc = "t_fallback"
    /\ LET cachedFallback == FallbackRows(moviesCache)
       IN  \E dbOk \in DbOutcomes :
             mv' = [mv EXCEPT ![r] =
                      IF dbOk /\ Len(cachedFallback) > 0
                      THEN Respond(@, 200, [source |-> "cache-fallback",
                                            movies |-> cachedFallback])
                      ELSE Respond(@, 200, [source |-> "omdb", movies |-> @.movies])]
    /\ UNCHANGED <<now, moviesCache, aiCache, history, ai, lastPut, fmt, env, gen, lastUpsert>>

\* A write whose failure reaches the response.
TrendingWriteAwaited(r) ==
    /\ mv[r].writes # <<>>
    /\ \E dbOk \in DbOutcomes :
         IF dbOk
         THEN /\ CacheWrite(Head(mv[r].writes))
              /\ mv' = [mv EXCEPT ![r].writes = Tail(@)]
         ELSE /\ UNCHANGED <<moviesCache, lastUpsert>>
              /\ mv' = [mv EXCEPT ![r] =
                          Respond([@ EXCEPT !.writes = Tail(@)], 500,
                                  [error |-> "Error fetching trending movies"])]
    /\ UNCHANGED <<now, aiCache, history, ai, lastPut, fmt, env, gen>>

\* The statement of a cacheMovie that was started without await completes, at
\* any later moment; its failure is caught and logged.
TrendingWrite(r) ==
    /\ mv[r].writes # <<>>
    /\ \E dbOk \in DbOutcomes :
         IF dbOk THEN CacheWrite(Head(mv[r].writes))
         ELSE UNCHANGED <<moviesCache, lastUpsert>>
    /\ mv' = [mv EXCEPT ![r].writes = Tail(@)]
    /\ UNCHANGED <<now, aiCache, history, ai, lastPut, fmt, env, gen>>

\* Rows that earlier requests left in the store: record k of the provider,
\* written at hour SeedHour(k) before the start.
MaxSeeds == 21

Digit(d) == SubSeq("0123456789", d + 1, d + 1)

SeedId(k) == "tt90000" \o Digit(k \div 10) \o Digit(k % 10)

SeedRating(k) ==
    CASE k % 4 = 0 -> "7.0" [] k % 4 = 1 -> "8.5" [] k % 4 = 2 -> "7.5" [] OTHER -> "8.0"

SeedHour(k) == -1 - (k % 3)

SeedPayload(k) ==
    [Inception EXCEPT !.imdbID = Str(SeedId(k)),
                      !.Title = Str("Archive Film " \o Digit(k \div 10) \o Digit(k % 10)),
                      !.imdbRating = Str(SeedRating(k))]

\* Records below the trending threshold, and one without a rating.
LowPayloads ==
    {[Inception EXCEPT !.imdbID = Str("tt9000091"), !.Title = Str("Archive Film 91"),
                       !.imdbRating = Str("6.5")],
     [Inception EXCEPT !.imdbID = Str("tt9000092"), !.Title = Str("Archive Film 92"),
                       !.imdbRating = Str("6.0")],
     [Inception EXCEPT !.imdbID = Str("tt9000093"), !.Title = Str("Archive Film 93"),
                       !.imdbRating = Str("5.9")],
     [Inception EXCEPT !.imdbID = Str("tt9000094"), !.Title = Str("Archive Film 94"),
                       !.imdbRating = Str("N/A")]}

\* The store after the first n records were written, each by cacheMovie.
SeedStore(n) ==
    UNION {cacheMovie({}, formatMovieData(SeedPayload(k)), SeedHour(k)) : k \in 1..n}

WithLow(store, payloads) ==
    store \cup UNION {cacheMovie({}, formatMovieData(p), -1) : p \in payloads}

SeedStores ==
    {SeedStore(0),
     WithLow(SeedStore(MinCached - 1), LowPayloads),
     WithLow(SeedStore(MinCached), LowPayloads),
     WithLow(SeedStore(MaxSeeds), LowPayloads)}

\* The ids of the watchlist titles the provider knows.
TrendingIds == {"tt0468569", "tt1375666", "tt0133093", "tt0137523"}

TrendingRequests == {"t1"}

ForceValues == {Undefined, Str("1"), Str("true"), Str("0")}

SourceValues == {Undefined, Str("omdb"), Str("cache")}

InitTrending ==
    /\ now = 0
    /\ moviesCache \in SeedStores
    /\ aiCache = {}
    /\ history = <<>>
    /\ ai = <<>>
    /\ lastPut = <<>>
    /\ fmt = <<>>
    /\ env \in {[omdbKey |-> TRUE, dbFlaky |-> flaky] : flaky \in BOOLEAN}
    /\ gen = <<>>
    /\ mv = [r \in TrendingRequests |-> IdleRequest]
    /\ lastUpsert = [id \in TrendingIds |-> NoUpsert]

TrendingStep(r) ==
    \/ \E force \in ForceValues, source \in SourceValues : TrendingStart(r, force, source)
    \/ TrendingSelect(r)
    \/ TrendingItem(r)
    \/ TrendingFallback(r)
    \/ TrendingWrite(r)
    \/ FetchAttempt(r)
    \/ FetchBackoff(r)

NextTrending == \E r \in TrendingRequests : TrendingStep(r)

SpecTrending == InitTrending /\ [][NextTrending]_vars

\* The rows of the store rated at least minTenths tenths.
RatedAtLeast(minTenths) ==
    {row \in moviesCache : row.imdb_rating.t = "num" /\ Tenths(row.imdb_rating) >= minTenths}

Min(a, b) == IF a < b THEN a ELSE b

\* result lists the best of rows: distinct rows of the set, at most TrendingLimit
\* and as many as there are up to it, higher rating first, the later created
\* first among equal ratings, and no row left out that belongs before one listed.
BestOf(result, rows) ==
    /\ Len(result) = Min(TrendingLimit, Cardinality(rows))
    /\ \A i \in 1..Len(result) : result[i] \in rows
    /\ \A i, j \in 1..Len(result) :
         i < j => /\ result[i] # result[j]
                  /\ \/ Tenths(result[i].imdb_rating) > Tenths(result[j].imdb_rating)
                     \/ /\ Tenths(result[i].imdb_rating) = Tenths(result[j].imdb_rating)
                        /\ result[i].created_at.n >= result[j].created_at.n
    /\ \A out \in rows \ {result[i] : i \in 1..Len(result)} :
         \A i \in 1..Len(result) :
            \/ Tenths(result[i].imdb_rating) > Tenths(out.imdb_rating)
            \/ /\ Tenths(result[i].imdb_rating) = Tenths(out.imdb_rating)
               /\ result[i].created_at.n >= out.created_at.n

\* C17: a request without a force flag whose first read of the store returns
\* answers at once from the store, without any request to the provider, when
\* the store holds at least 10 rows rated 7.0 or more: at most 20 rows, all
\* rated 7.0 or more, by rating descending and then by creation descending.
\* With fewer than 10 such rows it goes on to fetch the first watchlist title.
C17_CachedTrending ==
    [][\A r \in TrendingRequests :
         (mv[r].pc = "t_select" /\ mv'[r].pc # "t_select") =>
            LET qualifying == RatedAtLeast(70)
            IN  \/ env.dbFlaky /\ mv'[r].pc = "done" /\ mv'[r].resp.status = 500
                \/ /\ Cardinality(qualifying) >= 10
                   /\ mv'[r].pc = "done"
                   /\ mv'[r].resp.status = 200
                   /\ mv'[r].resp.body.source = "cache"
                   /\ BestOf(mv'[r].resp.body.movies, qualifying)
                   /\ Len(mv'[r].resp.body.movies) <= 20
                   /\ mv'[r].attempt = 0 /\ mv'[r].log = <<>>
                \/ /\ Cardinality(qualifying) < 10
                   /\ mv'[r].pc = "fetch"
                   /\ mv'[r].fetchArg = popularTitles[1]
                   /\ mv'[r].attempt = 1]_vars

\* An unforced request answered from a store of more than 20 qualifying rows.
C17_Witness ==
    \E r \in TrendingRequests :
        /\ mv[r].pc = "done" /\ mv[r].arg = Bool(FALSE)
        /\ mv[r].resp.status = 200
        /\ mv[r].resp.body.source = "cache"
        /\ Len(mv[r].resp.body.movies) = 20
        /\ Cardinality(RatedAtLeast(70)) > 20

\* The records of the titles the provider resolved, in watchlist order.
RECURSIVE ResolvedFrom(_, _)
ResolvedFrom(answers, i) ==
    IF i > Len(answers) THEN <<>>
    ELSE (IF answers[i]
          THEN <<formatMovieData(CHOOSE d \in OmdbByTitle(popularTitles[i]) : TRUE)>>
          ELSE <<>>) \o ResolvedFrom(answers, i + 1)

\* No row of the store was there before the start.
StartedEmpty == \A row \in moviesCache : row.created_at.n >= 0

\* The request went through the titles.
ThroughTitles(q) == q.pc = "done" /\ q.kind = "trending" /\ q.answers # <<>>

\* C18: a request that takes the watchlist path (forced, or fewer than 10
\* qualifying rows) goes through all ten titles and answers with success; from
\* an empty store the answer lists exactly one record per title the provider
\* resolved, in watchlist order, a failed or not-found title adding nothing.
C18_WatchlistSkipsFailures ==
    \A r \in TrendingRequests :
        /\ (mv[r].pc = "done" /\ mv[r].arg = Bool(TRUE)) => ThroughTitles(mv[r])
        /\ ThroughTitles(mv[r]) =>
              /\ Len(mv[r].answers) = Len(popularTitles)
              /\ mv[r].resp.status = 200
              /\ (StartedEmpty \/ \E i \in 1..Len(mv[r].answers) : mv[r].answers[i]) =>
                    /\ mv[r].resp.body.source = "omdb"
                    /\ mv[r].resp.body.movies = ResolvedFrom(mv[r].answers, 1)

\* An unforced request from an empty store that resolved three of the ten titles.
C18_Witness ==
    \E r \in TrendingRequests :
        /\ ThroughTitles(mv[r]) /\ mv[r].arg = Bool(FALSE)
        /\ StartedEmpty
        /\ Len(mv[r].resp.body.movies) = 3
        /\ mv[r].answers[1] /\ ~mv[r].answers[2] /\ ~mv[r].answers[3]

\* No title was resolved.
NoneResolved(q) ==
    /\ q.kind = "trending" /\ Len(q.answers) = Len(popularTitles)
    /\ \A i \in 1..Len(q.answers) : ~q.answers[i]

RECURSIVE CountResolved(_, _)
CountResolved(answers, i) ==
    IF i > Len(answers) THEN 0
    ELSE (IF answers[i] THEN 1 ELSE 0) + CountResolved(answers, i + 1)

\* C25: the writes that GET /trending starts for the records it resolved are
\* detached.  A write that completes, with success or with failure, changes
\* nothing of the request but its list of pending writes, and the answer of a
\* request that resolved a title is 200 with the resolved records, whether its
\* writes succeeded, failed or are still pending.
C25_DetachedWrites ==
    /\ [][\A r \in TrendingRequests :
            Len(mv'[r].writes) < Len(mv[r].writes) =>
               /\ mv'[r] = [mv[r] EXCEPT !.writes = Tail(@)]
               /\ moviesCache' \in {moviesCache, cacheMovie(moviesCache, Head(mv[r].writes), now)}]_vars
    /\ [](\A r \in TrendingRequests :
             (ThroughTitles(mv[r]) /\ CountResolved(mv[r].answers, 1) > 0) =>
                /\ mv[r].resp.status = 200
                /\ Len(mv[r].resp.body.movies) = CountResolved(mv[r].answers, 1)
                /\ mv[r].resp.body.movies = mv[r].movies)

\* A request was answered while one of its writes had succeeded, one had failed
\* and one was still pending.
C25_Witness ==
    \E r \in TrendingRequests :
        /\ ThroughTitles(mv[r]) /\ mv[r].resp.status = 200
        /\ Len(mv[r].writes) = 1
        /\ Len(mv[r].resp.body.movies) = 3
        /\ FindById(moviesCache, mv[r].movies[1].imdb_id) # {}
        /\ FindById(moviesCache, mv[r].movies[2].imdb_id) = {}

\* ---------------------------------------------------------------------------
\* POST /ai over a recommendation cache that already holds a row
\* ---------------------------------------------------------------------------

StoredPrompt == Str("space")

\* Values of the recommendations column of a stored row: a string that is no
\* JSON text, JSON texts of an object with a list and of a bare string, null, a
\* number, objects without and with a list, an empty array and a list.
StoredPayloads ==
    {Str("[object Object]"),
     Str("{\"recommendations\": [{\"title\": \"Inception\"}]}"),
     Str("\"Inception\""),
     Null,
     IntNum(42),
     Obj([note |-> Str("none")]),
     Obj([recommendations |-> Arr(<<Obj([title |-> Str("Inception")])>>)]),
     Arr(<<>>),
     Arr(<<Obj([title |-> Str("Inception")]), Obj([title |-> Str("Baraka")])>>)}

StoredRow(payload) ==
    [prompt_hash |-> promptHash(StoredPrompt.s), user_prompt |-> StoredPrompt,
     recommendations |-> payload, created_at |-> 0, expires_at |-> TtlHours]

StoredRequests == {"a1"}

StoredPrompts == {StoredPrompt, Str("dark thriller")}

InitStored ==
    /\ now = 0
    /\ moviesCache = {}
    /\ aiCache \in {{StoredRow(payload)} : payload \in StoredPayloads}
    /\ history = <<>>
    /\ ai = [r \in StoredRequests |-> IdleAi]
    /\ lastPut = [h \in AiHashes |-> NoPut]
    /\ mv = <<>>
    /\ fmt = <<>>
    /\ env = [omdbKey |-> TRUE, dbFlaky |-> FALSE]
    /\ gen = <<>>
    /\ lastUpsert = <<>>

NextStored ==
    \/ Tick
    \/ \E r \in StoredRequests : AiStep(r, StoredPrompts)

SpecStored == InitStored /\ [][NextStored]_vars

\* The payload holds a recommendation list in one of the accepted shapes: read
\* as JSON when it is a string, it is an array, or an object whose
\* recommendations or data is an array.
Decoded(raw) ==
    IF "t" \in DOMAIN raw /\ raw.t = "str"
    THEN JsonParse(raw.s)
    ELSE [ok |-> TRUE, v |-> raw]

AcceptedShape(d) ==
    /\ d.ok
    /\ \/ "t" \notin DOMAIN d.v
       \/ d.v.t = "arr"
       \/ ArrayProp(d.v, "recommendations").ok
       \/ ArrayProp(d.v, "data").ok

Readable(raw) == AcceptedShape(Decoded(raw))

\* C20: a lookup that finds a live row whose payload is unreadable (no JSON
\* text, or none of the accepted shapes) goes on to the language model as on a
\* miss, and does not answer from the row.
C20_UnreadableIsMiss ==
    [][\A r \in StoredRequests :
         (/\ ai[r].pc = "a_select" /\ ai'[r] # ai[r]
          /\ \E row \in FindRecommendations(aiCache, ai[r].promptHash, now) :
                ~Readable(row.recommendations)) =>
            ai'[r].pc = "a_generate"]_vars

\* A request answered from a live row with an unreadable payload.
AnsweredFromUnreadable ==
    \E r \in StoredRequests :
        /\ ai[r].pc = "done" /\ ai[r].resp.status = 200
        /\ ai[r].resp.body.source = "cache"
        /\ ai[r].resp.body.recommendations = <<>>
        /\ \E row \in aiCache : /\ row.prompt_hash = ai[r].promptHash
                                /\ ~Readable(row.recommendations)


\* ---------------------------------------------------------------------------
\* The four handlers to their response, every await returning or throwing.
\* ---------------------------------------------------------------------------

LiveAiRequests == FlakyRequests \cup StoredRequests

LiveMovieRequests == {"m1"}

LivePrompts == EdgePrompts \cup StoredPrompts

\* One request of GET /search or GET /details/:imdbId, the store empty or
\* holding a row, the database failing or not.
InitLiveMovies ==
    /\ now = 0
    /\ moviesCache \in {{}, cacheMovie({}, formatMovieDataRec(Inception), 0)}
    /\ aiCache = {}
    /\ history = <<>>
    /\ ai = <<>>
    /\ lastPut = <<>>
    /\ fmt = <<>>
    /\ env \in {[omdbKey |-> TRUE, dbFlaky |-> flaky] : flaky \in BOOLEAN}
    /\ gen = <<>>
    /\ mv = [r \in LiveMovieRequests |-> IdleRequest]
    /\ lastUpsert = [id \in ImdbIds |-> NoUpsert]

InitLive == InitFlaky \/ InitStored \/ InitLiveMovies \/ InitTrending

\* The steps of POST /ai after the request came in: each is the return or the
\* throw of the await the handler is at.
AiProgress(r) ==
    /\ r \in DOMAIN ai
    /\ \/ AiSelect(r)
       \/ AiGenerate(r)
       \/ AiMovieSelect(r)
       \/ AiMovieGet(r)
       \/ AiMovieCache(r)
       \/ AiCacheInsert(r)
       \/ AiHistory(r)

\* The steps of GET /search and GET /details/:imdbId after the request came in.
MovieProgress(r) ==
    /\ r \in DOMAIN mv
    /\ \/ DetailsSelect(r)
       \/ DetailsGot(r)
       \/ DetailsCache(r)
       \/ SearchSelect(r)
       \/ SearchGot(r)
       \/ SearchItem(r)
       \/ SearchCache(r)
       \/ FetchAttempt(r)
       \/ FetchBackoff(r)

\* The steps of GET /trending after the request came in.
TrendingProgress(r) ==
    /\ r \in DOMAIN mv
    /\ \/ TrendingSelect(r)
       \/ TrendingItem(r)
       \/ TrendingFallback(r)
       \/ TrendingWrite(r)
       \/ FetchAttempt(r)
       \/ FetchBackoff(r)

AiArrives(r) ==
    /\ r \in DOMAIN ai
    /\ \E prompt \in LivePrompts, userId \in UserIds : AiStart(r, prompt, userId)

MovieArrives(r) ==
    /\ r \in DOMAIN mv
    /\ \/ \E imdbId \in ImdbIds : DetailsStart(r, imdbId)
       \/ \E title \in SearchTitles : SearchStart(r, title)

TrendingArrives(r) ==
    /\ r \in DOMAIN mv
    /\ \E force \in ForceValues, source \in SourceValues : TrendingStart(r, force, source)

NextLive ==
    \/ \E r \in LiveAiRequests : AiArrives(r) \/ AiProgress(r)
    \/ \E r \in LiveMovieRequests : MovieArrives(r) \/ MovieProgress(r)
    \/ \E r \in TrendingRequests : TrendingArrives(r) \/ TrendingProgress(r)

AiPending(r) == r \in DOMAIN ai /\ ai[r].pc \notin {"idle", "done"}
MoviePending(r) == r \in DOMAIN mv /\ mv[r].pc \notin {"idle", "done"}

\* Every statement sent to the pool, every request to a provider and every
\* timer of a back-off returns or throws in the end: weak fairness of the steps
\* of each request, WF_vars(AiProgress(r)) and the like, written out as
\* []<>~ENABLED <<A>>_vars \/ []<><<A>>_vars with the condition under which a
\* step of the request is enabled, that the handler is suspended at an await,
\* in the place of ENABLED.  (For GET /trending the writes it started may
\* still complete after the response; no fairness is asked of them then.)
EveryAwaitSettles ==
    /\ \A r \in LiveAiRequests : []<>(~AiPending(r)) \/ []<><<AiProgress(r)>>_vars
    /\ \A r \in LiveMovieRequests : []<>(~MoviePending(r)) \/ []<><<MovieProgress(r)>>_vars
    /\ \A r \in TrendingRequests : []<>(~MoviePending(r)) \/ []<><<TrendingProgress(r)>>_vars

SpecLive == InitLive /\ [][NextLive]_vars /\ EveryAwaitSettles

AiAnswered(r) == r \in DOMAIN ai /\ ai[r].pc = "done" /\ ai[r].resp # NoResp
MovieAnswered(r) == r \in DOMAIN mv /\ mv[r].pc = "done" /\ mv[r].resp # NoResp

\* C30: every await returning or throwing in the end, each request to
\* POST /ai, GET /search, GET /details/:imdbId and GET /trending terminates and
\* sends exactly one response, on every path: a request in the handler is
\* answered in the end; a response is sent exactly when the handler ends; and
\* after it the handler takes no step and the response is not sent again (of
\* GET /trending only the writes it started go on to complete).
C30_ExactlyOneResponse ==
    /\ \A r \in LiveAiRequests : AiPending(r) ~> AiAnswered(r)
    /\ \A r \in LiveMovieRequests \cup TrendingRequests : MoviePending(r) ~> MovieAnswered(r)
    /\ [](\A r \in DOMAIN ai : (ai[r].pc = "done") <=> (ai[r].resp # NoResp))
    /\ [](\A r \in DOMAIN mv : (mv[r].pc = "done") <=> (mv[r].resp # NoResp))
    /\ [][/\ \A r \in DOMAIN ai : ai[r].resp # NoResp => ai'[r] = ai[r]
          /\ \A r \in DOMAIN mv :
                mv[r].resp # NoResp =>
                   \/ mv'[r] = mv[r]
                   \/ /\ mv[r].writes # <<>>
                      /\ mv'[r] = [mv[r] EXCEPT !.writes = Tail(@)]]_vars

\* POST /ai answered with a fresh list although the INSERT into the
\* recommendation cache threw, after the INSERT into search_history.
C30_Witness ==
    \E r \in DOMAIN ai :
        /\ AiAnswered(r)
        /\ ai[r].resp.status = 200
        /\ ai[r].resp.body.source = "ai"
        /\ ai[r].cacheErr
        /\ ~Falsy(ai[r].userId)
        /\ aiCache = {}

====
